---------------------------- MODULE Spec2Model ----------------------------
(***************************************************************************)
(* Model of the document-ingestion pipeline core:                          *)
(*   - BaseAgent.execute          (app/agents/base_agent.py)               *)
(*   - AgentOrchestrator.process_document (app/agents/agent_orchestrator.py)*)
(*   - process_document_task      (app/tasks.py)                           *)
(*   - RedisStateManager          (app/services/state_manager.py)          *)
(*                                                                         *)
(* Two specifications share the variables:                                 *)
(*   SpecExecute : one call of BaseAgent.execute, attempt by attempt       *)
(*   Spec        : deliveries of process_document_task for one job, each   *)
(*                 running the orchestrator's stage loop and then writing  *)
(*                 the result to the shared store                          *)
(***************************************************************************)
EXTENDS Integers, Sequences, FiniteSets, TLC

(***************************************************************************)
(* Bounds of the model                                                     *)
(***************************************************************************)
\* max_retries of an agent is drawn from 0..MaxRetriesBound
MaxRetriesBound == 3
\* retry_delay of an agent is drawn from 1..MaxRetryDelay (time units)
MaxRetryDelay == 2
\* a stage body raises on its first n invocations, n in 0..MaxTransient
MaxTransient == 2
\* at-least-once redeliveries of the task message, beyond the first delivery
MaxRedeliveries == 1

(***************************************************************************)
(* BaseAgent.execute                                                       *)
(***************************************************************************)
VARIABLES
    max_retries,    \* self.max_retries
    retry_delay,    \* self.retry_delay
    input_valid,    \* what validate_input does on the input: true, false, raise
    epc,            \* position in execute: validate, loop, finally, returned
    status,         \* local status (AgentStatus)
    result_data,    \* local result_data
    error,          \* local error
    metrics,        \* AgentMetrics: retry_count, error_count
    attempt,        \* loop variable of "for attempt in range(max_retries)"
    events          \* log of body invocations and backoff sleeps, in order

execVars == <<max_retries, retry_delay, input_valid, epc, status,
              result_data, error, metrics, attempt, events>>

VARIABLES
    plan,             \* per stage: how its body behaves (fixed at first call)
    invocations,      \* per stage: body invocations over all runs of the job
    run_invoked,      \* body invocations of the current run, with outcomes
    tpc,              \* position of the task: queued, stages, finish, store, done
    stage_idx,        \* position of "for stage_name, agent in pipeline_stages"
    pipeline_results, \* the dictionary built by process_document
    has_callback,     \* whether a status_callback was passed
    cb_log,           \* the calls made to status_callback, in order
    orch_metrics,     \* AgentOrchestrator.metrics (the counters)
    descriptor_ok,    \* whether DocumentData/AgentContext can be rebuilt
    store,            \* Redis db 0: result:{job}, job:{job}, doc:{document}
    retries,          \* self.request.retries
    deliveries,       \* redeliveries of the task message so far
    webhooks,         \* trigger_webhooks_task messages enqueued
    task_return,      \* what the last finished execution returned
    now               \* logical clock behind datetime.utcnow()

pipeVars == <<plan, invocations, run_invoked, tpc, stage_idx,
              pipeline_results, has_callback, cb_log, orch_metrics,
              descriptor_ok, store, retries, deliveries, webhooks,
              task_return, now>>

VARIABLES
    registry,      \* Redis: webhook:{id} for the ids of webhooks:index
    hpc,           \* position of trigger_webhooks_task
    list_redis,    \* whether Redis answered list_webhooks
    listed,        \* what list_webhooks returned
    hook_i,        \* position of "for webhook in webhooks"
    posted,        \* the ids POSTed to, in order
    hook_results   \* the results dictionary of trigger_webhooks_task

hookVars == <<registry, hpc, list_redis, listed, hook_i, posted,
              hook_results>>

VARIABLES
    doc_rec,       \* Redis: the value of doc:{document_id}
    wpc,           \* per writer of doc:{document_id}: its position
    local,         \* per writer: the dictionary it holds between get and set
    doc_ttl,       \* Redis: TTL doc:{document_id} in seconds, -1 without expiry
    revoked        \* the task handles revoked so far

docVars == <<doc_rec, wpc, local, doc_ttl, revoked>>

VARIABLES
    rec_docs,      \* Redis: the doc:* values seen by the recovery scan
    rec_before,    \* the doc:* values when the scan started
    rpc,           \* position of recover_pending_tasks
    scan_i,        \* position of "for doc_key in doc_keys"
    enqueued,      \* the process_document_task messages sent by the scan
    rec_faults     \* the records at which Redis or the broker failed

recVars == <<rec_docs, rec_before, rpc, scan_i, enqueued, rec_faults>>

VARIABLES
    wh_keys,       \* Redis: the webhook:{id} keys, each with value and TTL
    wh_index,      \* Redis: the set webhooks:index
    wh_expected,   \* the registrations made and not deleted, latest data
    wh_faulty,     \* the ids at which an operation failed half-way
    wh_next        \* the next webhook id handed out

regVars == <<wh_keys, wh_index, wh_expected, wh_faulty, wh_next>>

VARIABLES
    b_docs,        \* process_batch: len(documents)
    b_max,         \* process_batch: max_concurrent
    b_sem,         \* the value of the asyncio.Semaphore
    b_state,       \* per document: created, running or done
    b_out,         \* per document: what process_document gave
    b_runs,        \* per document: process_document calls started
    b_peak,        \* the largest number of runs in progress so far
    bpc,           \* position of process_batch: gather, collect, returned
    b_results      \* processed_results

batchVars == <<b_docs, b_max, b_sem, b_state, b_out, b_runs, b_peak, bpc,
               b_results>>

VARIABLES
    j_base,                \* secure_path_join: what base_dir is
    jpc,                   \* position: loop, returned, raised
    j_taken,               \* path components consumed by the loop
    sanitized_components,  \* the parts kept so far
    j_result               \* the path returned

pathVars == <<j_base, jpc, j_taken, sanitized_components, j_result>>

VARIABLES
    x_upd,         \* an update_webhook call: idle, got, set, done
    x_webhook,     \* the dictionary that the update_webhook call holds
    x_del,         \* a delete_webhook call: idle, deleted, done
    x_late         \* update_webhook called register_webhook after the
                   \* delete_webhook call had returned

raceVars == <<x_upd, x_webhook, x_del, x_late>>

vars ==
    <<execVars, pipeVars, hookVars, docVars,
      recVars, regVars, batchVars, pathVars, raceVars>>

nonExecVars ==
    <<pipeVars, hookVars, docVars, recVars,
      regVars, batchVars, pathVars, raceVars>>
nonPipeVars ==
    <<execVars, hookVars, docVars, recVars,
      regVars, batchVars, pathVars, raceVars>>
nonHookVars ==
    <<execVars, pipeVars, docVars, recVars,
      regVars, batchVars, pathVars, raceVars>>
nonDocVars ==
    <<execVars, pipeVars, hookVars, recVars,
      regVars, batchVars, pathVars, raceVars>>
nonRecVars ==
    <<execVars, pipeVars, hookVars, docVars,
      regVars, batchVars, pathVars, raceVars>>
nonRegVars ==
    <<execVars, pipeVars, hookVars, docVars,
      recVars, batchVars, pathVars, raceVars>>
nonBatchVars ==
    <<execVars, pipeVars, hookVars, docVars,
      recVars, regVars, pathVars, raceVars>>
nonPathVars ==
    <<execVars, pipeVars, hookVars, docVars,
      recVars, regVars, batchVars, raceVars>>
nonRaceVars ==
    <<execVars, pipeVars, hookVars, docVars,
      recVars, regVars, batchVars, pathVars>>

\* AgentStatus
PENDING == "pending"
RUNNING == "running"
COMPLETED == "completed"
FAILED == "failed"
RETRYING == "retrying"
AgentStatus == {PENDING, RUNNING, COMPLETED, FAILED, RETRYING}

\* Python None
None == "None"

\* outputs a stage body can return
BodyData == {"out1", "out2"}
\* the message of a ValueError raised by a stage body: the class the
\* envelope itself raises for rejected input
BodyValueError == "Invalid input data"
\* messages of the exceptions (subclasses of Exception) a stage body can raise
BodyErrors == {BodyValueError, "connection reset"}
\* error = f"Timeout after {self.timeout}s"
TimeoutError == "Timeout after 30.0s"
\* ValueError(f"Invalid input data for {self.name}")
InvalidInputError == "Invalid input data for agent"
\* an exception raised by validate_input itself
ValidateRaised == "validate_input raised"

RECURSIVE Pow2(_)
Pow2(n) == IF n = 0 THEN 1 ELSE 2 * Pow2(n - 1)

\* self.retry_delay * (2 ** attempt)
BackoffDelay(delay, k) == delay * Pow2(k)

\* one invocation of self.process: attempt index, outcome, and the value it
\* returned or the message of what it raised
CallEvent(k, o, v) ==
    [type |-> "call", attempt |-> k, outcome |-> o, value |-> v, delay |-> 0]
\* one asyncio.sleep after attempt k
SleepEvent(k, d) ==
    [type |-> "sleep", attempt |-> k, outcome |-> "-", value |-> "-", delay |-> d]

AgentMetrics == [retry_count |-> 0, error_count |-> 0]

\* the loop "for attempt in range(self.max_retries)" moves to its next
\* iteration, or falls through to the finally block when exhausted
NextIteration(k) == IF k + 1 < max_retries THEN "loop" ELSE "finally"

\* lines 130-134: validate_input returned True
ValidateOk ==
    /\ epc = "validate"
    /\ input_valid = "true"
    /\ status' = RUNNING
    /\ epc' = IF max_retries > 0 THEN "loop" ELSE "finally"
    /\ UNCHANGED <<max_retries, retry_delay, input_valid, result_data, error,
                   metrics, attempt, events>>
    /\ UNCHANGED nonExecVars

\* variant: a rejected input is processed anyway
ValidateFalse_Proceeds ==
    /\ epc = "validate"
    /\ input_valid = "false"
    /\ status' = RUNNING
    /\ epc' = IF max_retries > 0 THEN "loop" ELSE "finally"
    /\ UNCHANGED <<max_retries, retry_delay, input_valid, result_data, error,
                   metrics, attempt, events>>
    /\ UNCHANGED nonExecVars

\* lines 130-131, 164-167: validate_input returned False; the ValueError
\* raised for it is caught by the outer handler
ValidateFalse ==
    /\ epc = "validate"
    /\ input_valid = "false"
    /\ status' = FAILED
    /\ error' = InvalidInputError
    /\ epc' = "finally"
    /\ UNCHANGED <<max_retries, retry_delay, input_valid, result_data,
                   metrics, attempt, events>>
    /\ UNCHANGED nonExecVars

\* variant: an exception of validate_input leaves execute (no outer handler)
ValidateRaises_Escapes ==
    /\ epc = "validate"
    /\ input_valid = "raise"
    /\ epc' = "raised"
    /\ UNCHANGED <<max_retries, retry_delay, input_valid, status, result_data,
                   error, metrics, attempt, events>>
    /\ UNCHANGED nonExecVars

\* lines 130, 164-167: validate_input itself raised
ValidateRaises ==
    /\ epc = "validate"
    /\ input_valid = "raise"
    /\ status' = FAILED
    /\ error' = ValidateRaised
    /\ epc' = "finally"
    /\ UNCHANGED <<max_retries, retry_delay, input_valid, result_data,
                   metrics, attempt, events>>
    /\ UNCHANGED nonExecVars

\* variant: the loop goes on after a successful attempt (no break)
AttemptCompleted_NoBreak ==
    /\ epc = "loop"
    /\ \E d \in BodyData :
          /\ result_data' = d
          /\ events' = Append(events, CallEvent(attempt, "ok", d))
    /\ status' = COMPLETED
    /\ attempt' = attempt + 1
    /\ epc' = NextIteration(attempt)
    /\ UNCHANGED <<max_retries, retry_delay, input_valid, error, metrics>>
    /\ UNCHANGED nonExecVars

\* lines 138-145: the body returned within the timeout
AttemptCompleted ==
    /\ epc = "loop"
    /\ \E d \in BodyData :
          /\ result_data' = d
          /\ events' = Append(events, CallEvent(attempt, "ok", d))
    /\ status' = COMPLETED
    /\ epc' = "finally"
    /\ UNCHANGED <<max_retries, retry_delay, input_valid, error, metrics,
                   attempt>>
    /\ UNCHANGED nonExecVars

\* lines 147-150: asyncio.wait_for raised TimeoutError
AttemptTimeout ==
    /\ epc = "loop"
    /\ metrics' = [metrics EXCEPT !.error_count = @ + 1]
    /\ error' = TimeoutError
    /\ events' = Append(events, CallEvent(attempt, "timeout", TimeoutError))
    /\ attempt' = attempt + 1
    /\ epc' = NextIteration(attempt)
    /\ UNCHANGED <<max_retries, retry_delay, input_valid, status, result_data>>
    /\ UNCHANGED nonExecVars

\* variant: the last attempt is also counted as a retry and backed off
WillRetry_OffByOne(k) == k < max_retries

\* the condition under which a failed attempt is followed by a backoff
WillRetry(k) == k < max_retries - 1

\* lines 152-162: the body raised an exception
AttemptException ==
    /\ epc = "loop"
    /\ \E e \in BodyErrors :
          /\ error' = e
          /\ IF WillRetry(attempt)
               THEN /\ status' = RETRYING
                    /\ metrics' = [metrics EXCEPT !.error_count = @ + 1,
                                                  !.retry_count = @ + 1]
                    /\ events' = events \o
                          << CallEvent(attempt, "raise", e),
                             SleepEvent(attempt,
                                        BackoffDelay(retry_delay, attempt)) >>
               ELSE /\ status' = FAILED
                    /\ metrics' = [metrics EXCEPT !.error_count = @ + 1]
                    /\ events' = Append(events, CallEvent(attempt, "raise", e))
    /\ attempt' = attempt + 1
    /\ epc' = NextIteration(attempt)
    /\ UNCHANGED <<max_retries, retry_delay, input_valid, result_data>>
    /\ UNCHANGED nonExecVars

\* lines 169-182: finally block and return of the AgentResult
Return ==
    /\ epc = "finally"
    /\ epc' = "returned"
    /\ UNCHANGED <<max_retries, retry_delay, input_valid, status,
                   result_data, error, metrics, attempt, events>>
    /\ UNCHANGED nonExecVars

\* the AgentResult returned by execute
AgentResult ==
    [status |-> status, data |-> result_data, error |-> error,
     retry_count |-> metrics.retry_count]

(***************************************************************************)
(* AgentOrchestrator.process_document, run by process_document_task, and   *)
(* the shared store                                                        *)
(***************************************************************************)
\* self.pipeline_stages
Stages == << "validation", "classification", "ocr_processing",
             "content_analysis", "schema_generation" >>
NStages == Len(Stages)

\* max_retries of process_document_task
TaskMaxRetries == 3

\* a stage body raises on its first `transient` invocations and from then on
\* returns a success dictionary or a failure dictionary; `valid` is the
\* is_valid flag carried by a successful validation output
Unset == [transient |-> -1, final |-> "unset", valid |-> FALSE]
Plans(i) ==
    IF plan[i] # Unset THEN {plan[i]}
    ELSE [transient : 0..MaxTransient,
          final : {"success", "failure"},
          valid : IF Stages[i] = "validation" THEN BOOLEAN ELSE {TRUE}]

\* what the n-th invocation (counting from 0) of a body with plan p does
BodyOutcome(p, n) ==
    IF n < p.transient THEN "raised"
    ELSE IF p.final = "failure" THEN "failure" ELSE "success"

\* the 'error' entry of a failure dictionary, or str(stage_error)
StageError(i, o) == << o, Stages[i] >>

NoError == [prefix |-> "None", stage |-> "None", error |-> << "None", "None" >>]
\* f"Agent {agent.name} failed: {agent_result.get('error', ...)}"
AgentFailed(i) ==
    [prefix |-> "Agent failed", stage |-> Stages[i],
     error |-> StageError(i, "failure")]
\* f"Stage '{stage_name}' failed with error: {str(stage_error)}"
StageFailedWithError(i) ==
    [prefix |-> "Stage failed with error", stage |-> Stages[i],
     error |-> StageError(i, "raised")]

\* lines 67-75
InitialResults ==
    [current_stage |-> "initializing",
     stages_completed |-> <<>>,
     overall_success |-> FALSE,
     error_details |-> NoError,
     agent_results |-> {},
     ended |-> FALSE]

\* await status_callback(document_id, stage, state), when one was given
Notify(log, stage, state) ==
    IF has_callback THEN Append(log, << stage, state >>) ELSE log

NoResult == [status |-> "None", stage |-> "None", completed_at |-> 0,
             agent_results |-> {}]
NoJobState == [stage |-> "None", completed_at |-> 0, agent_results |-> {}]
NoDocument == [status |-> "None", updated_at |-> 0]

\* the state right after the upload handler queued the task
InitPipeline ==
    /\ plan = [i \in 1..NStages |-> Unset]
    /\ invocations = [i \in 1..NStages |-> 0]
    /\ run_invoked = <<>>
    /\ tpc = "queued"
    /\ stage_idx = 0
    /\ pipeline_results = InitialResults
    /\ has_callback \in BOOLEAN
    /\ cb_log = <<>>
    /\ orch_metrics = [documents_processed |-> 0, successful_completions |-> 0,
                       failed_processing |-> 0]
    /\ descriptor_ok \in BOOLEAN
    /\ store = [result |-> NoResult, job_state |-> NoJobState,
                doc |-> [status |-> "processing", updated_at |-> 0]]
    /\ retries = 0
    /\ deliveries = 0
    /\ webhooks = 0
    /\ task_return = "None"
    /\ now = 1

\* no webhook dispatch in progress
IdleWebhooks ==
    /\ registry = <<>>
    /\ hpc = "idle"
    /\ list_redis = "ok"
    /\ listed = <<>>
    /\ hook_i = 0
    /\ posted = <<>>
    /\ hook_results = [webhooks_triggered |-> 0, webhooks_failed |-> 0,
                       details |-> <<>>]

\* no writer of a document record under observation
IdleDoc ==
    /\ doc_rec = "None"
    /\ wpc = <<>>
    /\ local = <<>>
    /\ doc_ttl = 0
    /\ revoked = {}

\* no recovery scan in progress
IdleRecovery ==
    /\ rec_docs = <<>>
    /\ rec_before = <<>>
    /\ rpc = "idle"
    /\ scan_i = 0
    /\ enqueued = <<>>
    /\ rec_faults = {}

\* no webhook registered, and no operation on the registry
IdleRegistry ==
    /\ wh_keys = <<>>
    /\ wh_index = {}
    /\ wh_expected = <<>>
    /\ wh_faulty = {}
    /\ wh_next = 1

\* no process_batch call
IdleBatch ==
    /\ b_docs = 0
    /\ b_max = 1
    /\ b_sem = 0
    /\ b_state = <<>>
    /\ b_out = <<>>
    /\ b_runs = <<>>
    /\ b_peak = 0
    /\ bpc = "idle"
    /\ b_results = <<>>

\* no secure_path_join call
IdlePath ==
    /\ j_base = "ok"
    /\ jpc = "idle"
    /\ j_taken = 0
    /\ sanitized_components = <<>>
    /\ j_result = <<>>

\* no update_webhook or delete_webhook call in progress
IdleRace ==
    /\ x_upd = "idle"
    /\ x_webhook = [active |-> FALSE, events_null |-> FALSE, events |-> {}]
    /\ x_del = "idle"
    /\ x_late = FALSE

\* no task in SpecExecute
IdlePipeline ==
    /\ plan = [i \in 1..NStages |-> Unset]
    /\ invocations = [i \in 1..NStages |-> 0]
    /\ run_invoked = <<>>
    /\ tpc = "idle"
    /\ stage_idx = 0
    /\ pipeline_results = InitialResults
    /\ has_callback = FALSE
    /\ cb_log = <<>>
    /\ orch_metrics = [documents_processed |-> 0, successful_completions |-> 0,
                       failed_processing |-> 0]
    /\ descriptor_ok = TRUE
    /\ store = [result |-> NoResult, job_state |-> NoJobState,
                doc |-> NoDocument]
    /\ retries = 0
    /\ deliveries = 0
    /\ webhooks = 0
    /\ task_return = "None"
    /\ now = 1

\* no execute call in Spec
IdleExecute ==
    /\ max_retries = 3
    /\ retry_delay = 1
    /\ input_valid = "true"
    /\ epc = "idle"
    /\ status = PENDING
    /\ result_data = None
    /\ error = None
    /\ metrics = AgentMetrics
    /\ attempt = 0
    /\ events = <<>>

\* the job right after upload, with no execute call in progress
Init ==
    /\ InitPipeline
    /\ IdleExecute
    /\ IdleWebhooks
    /\ IdleDoc
    /\ IdleRecovery
    /\ IdleRegistry
    /\ IdleBatch
    /\ IdlePath
    /\ IdleRace

\* variant: one more retry is granted
TaskExceptionHandler_OneMore ==
    IF retries <= TaskMaxRetries
      THEN /\ retries' = retries + 1
           /\ tpc' = "queued"
           /\ task_return' = task_return
      ELSE /\ retries' = retries
           /\ tpc' = "done"
           /\ task_return' = "error"

\* tasks.py lines 147-162: retry while retries are left, else return the
\* error dictionary
TaskExceptionHandler ==
    IF retries < TaskMaxRetries
      THEN /\ retries' = retries + 1
           /\ tpc' = "queued"
           /\ task_return' = task_return
      ELSE /\ retries' = retries
           /\ tpc' = "done"
           /\ task_return' = "error"

\* tasks.py lines 83-98, agent_orchestrator.py lines 61-79: a worker takes
\* the message, rebuilds the objects and process_document starts
TaskStart ==
    /\ tpc = "queued"
    /\ descriptor_ok
    /\ run_invoked' = <<>>
    /\ pipeline_results' = InitialResults
    /\ stage_idx' = 1
    /\ tpc' = "stages"
    /\ UNCHANGED <<plan, invocations, has_callback, cb_log, orch_metrics,
                   descriptor_ok, store, retries, deliveries, webhooks,
                   task_return, now>>
    /\ UNCHANGED nonPipeVars

\* tasks.py lines 87-88, 147-162: rebuilding the objects raises
TaskBadDescriptor ==
    /\ tpc = "queued"
    /\ ~descriptor_ok
    /\ TaskExceptionHandler
    /\ UNCHANGED <<plan, invocations, run_invoked, stage_idx,
                   pipeline_results, has_callback, cb_log, orch_metrics,
                   descriptor_ok, store, deliveries, webhooks, now>>
    /\ UNCHANGED nonPipeVars

\* variant: a failed stage does not end the loop
AfterStage_NoBreak(i, ok) == IF i < NStages THEN "stages" ELSE "finish"

\* where the stage loop goes after stage i: on to the next stage, or out of
\* the loop (break on failure, or list exhausted)
AfterStage(i, ok) == IF ok /\ i < NStages THEN "stages" ELSE "finish"

\* one body invocation of the current run
Invocation(i, o) == [stage |-> i, outcome |-> o, error |-> StageError(i, o)]

\* agent_orchestrator.py lines 81-126: the stage body returned a dictionary
\* with success = True
StageSucceeds ==
    /\ tpc = "stages"
    /\ \E p \in Plans(stage_idx) :
          /\ BodyOutcome(p, invocations[stage_idx]) = "success"
          /\ plan' = [plan EXCEPT ![stage_idx] = p]
    /\ invocations' = [invocations EXCEPT ![stage_idx] = @ + 1]
    /\ run_invoked' = Append(run_invoked, Invocation(stage_idx, "success"))
    /\ pipeline_results' =
          [pipeline_results EXCEPT
              !.current_stage = Stages[stage_idx],
              !.agent_results = @ \cup {Stages[stage_idx]},
              !.stages_completed = Append(@, Stages[stage_idx])]
    /\ cb_log' = Notify(Notify(cb_log, Stages[stage_idx], "processing"),
                        Stages[stage_idx], "completed")
    /\ stage_idx' = stage_idx + 1
    /\ tpc' = AfterStage(stage_idx, TRUE)
    /\ UNCHANGED <<has_callback, orch_metrics, descriptor_ok, store, retries,
                   deliveries, webhooks, task_return, now>>
    /\ UNCHANGED nonPipeVars

\* agent_orchestrator.py lines 81-106: the stage body returned a dictionary
\* without success
StageFails ==
    /\ tpc = "stages"
    /\ \E p \in Plans(stage_idx) :
          /\ BodyOutcome(p, invocations[stage_idx]) = "failure"
          /\ plan' = [plan EXCEPT ![stage_idx] = p]
    /\ invocations' = [invocations EXCEPT ![stage_idx] = @ + 1]
    /\ run_invoked' = Append(run_invoked, Invocation(stage_idx, "failure"))
    /\ pipeline_results' =
          [pipeline_results EXCEPT
              !.current_stage = Stages[stage_idx],
              !.error_details = AgentFailed(stage_idx)]
    /\ cb_log' = Notify(Notify(cb_log, Stages[stage_idx], "processing"),
                        Stages[stage_idx], "failed")
    /\ stage_idx' = stage_idx + 1
    /\ tpc' = AfterStage(stage_idx, FALSE)
    /\ UNCHANGED <<has_callback, orch_metrics, descriptor_ok, store, retries,
                   deliveries, webhooks, task_return, now>>
    /\ UNCHANGED nonPipeVars

\* agent_orchestrator.py lines 81-95, 128-136: the stage body raised
StageRaises ==
    /\ tpc = "stages"
    /\ \E p \in Plans(stage_idx) :
          /\ BodyOutcome(p, invocations[stage_idx]) = "raised"
          /\ plan' = [plan EXCEPT ![stage_idx] = p]
    /\ invocations' = [invocations EXCEPT ![stage_idx] = @ + 1]
    /\ run_invoked' = Append(run_invoked, Invocation(stage_idx, "raised"))
    /\ pipeline_results' =
          [pipeline_results EXCEPT
              !.current_stage = Stages[stage_idx],
              !.error_details = StageFailedWithError(stage_idx)]
    /\ cb_log' = Notify(Notify(cb_log, Stages[stage_idx], "processing"),
                        Stages[stage_idx], "error")
    /\ stage_idx' = stage_idx + 1
    /\ tpc' = AfterStage(stage_idx, FALSE)
    /\ UNCHANGED <<has_callback, orch_metrics, descriptor_ok, store, retries,
                   deliveries, webhooks, task_return, now>>
    /\ UNCHANGED nonPipeVars

\* variant: a run is successful as soon as one stage completed
OverallSuccess_AnyStage(results) == Len(results.stages_completed) >= 1

\* agent_orchestrator.py line 139
OverallSuccess(results) == Len(results.stages_completed) = NStages

\* agent_orchestrator.py lines 138-155 and _update_metrics (174-181)
PipelineFinish ==
    /\ tpc = "finish"
    /\ LET ok == OverallSuccess(pipeline_results)
       IN  /\ pipeline_results' =
                 [pipeline_results EXCEPT !.overall_success = ok,
                                          !.ended = TRUE]
           /\ orch_metrics' =
                 [documents_processed |-> orch_metrics.documents_processed + 1,
                  successful_completions |->
                     orch_metrics.successful_completions + (IF ok THEN 1 ELSE 0),
                  failed_processing |->
                     orch_metrics.failed_processing + (IF ok THEN 0 ELSE 1)]
           /\ cb_log' = IF ok THEN Notify(cb_log, "completed", "success")
                              ELSE Notify(cb_log, "failed", "error")
    /\ tpc' = "store"
    /\ UNCHANGED <<plan, invocations, run_invoked, stage_idx, has_callback,
                   descriptor_ok, store, retries, deliveries, webhooks,
                   task_return, now>>
    /\ UNCHANGED nonPipeVars

\* the stage of the pipeline state handed back to the task: COMPLETED once
\* all stages completed, FAILED after a halt
PipelineStage(results) ==
    IF results.overall_success THEN "completed" ELSE "failed"

\* RedisStateManager.store_task_result; redis says how far the connection
\* gets: "ok", "result_only" (the job-state write fails) or "down"
store_task_result(st, result, redis, t) ==
    IF redis = "down" THEN st
    ELSE IF result.status = "completed" /\ redis = "ok"
      THEN [st EXCEPT !.result = result,
                      !.job_state = [stage |-> "completed",
                                     completed_at |-> t,
                                     agent_results |-> result.agent_results]]
      ELSE [st EXCEPT !.result = result]

\* RedisStateManager.update_document_status
update_document_status(st, new_status, redis, t) ==
    IF redis = "down" \/ st.doc = NoDocument THEN st
    ELSE [st EXCEPT !.doc = [status |-> new_status, updated_at |-> t]]

ValidationIdx == CHOOSE i \in 1..NStages : Stages[i] = "validation"

\* variant: the webhook task is queued for every completed pipeline
ShouldNotify_IgnoresValidation(stage, results, pl) == stage = "completed"

\* tasks.py lines 127-130: the pipeline completed and the validation output
\* is present and has is_valid set
ShouldNotify(stage, results, pl) ==
    /\ stage = "completed"
    /\ "validation" \in results.agent_results
    /\ pl[ValidationIdx].valid

\* tasks.py lines 100-142 (and 147-162 when queueing the webhook task raises)
TaskStoreResult ==
    /\ tpc = "store"
    /\ LET stage == PipelineStage(pipeline_results)
           result == [status |-> IF stage = "completed" THEN "completed"
                                                        ELSE "failed",
                      stage |-> stage,
                      completed_at |-> now,
                      agent_results |-> pipeline_results.agent_results]
           notify == ShouldNotify(stage, pipeline_results, plan)
       IN  \E r1 \in {"ok", "result_only", "down"}, r2 \in {"ok", "down"},
              broker_ok \in BOOLEAN :
              /\ store' = update_document_status(
                             store_task_result(store, result, r1, now),
                             "completed", r2, now)
              /\ IF notify /\ ~broker_ok
                   THEN /\ TaskExceptionHandler
                        /\ webhooks' = webhooks
                   ELSE /\ webhooks' = IF notify THEN webhooks + 1 ELSE webhooks
                        /\ task_return' = result.status
                        /\ tpc' = "done"
                        /\ retries' = retries
    /\ now' = now + 1
    /\ UNCHANGED <<plan, invocations, run_invoked, stage_idx,
                   pipeline_results, has_callback, cb_log, orch_metrics,
                   descriptor_ok, deliveries>>
    /\ UNCHANGED nonPipeVars

\* celery_app.py lines 34, 49 (task_acks_late, task_reject_on_worker_lost):
\* a message whose worker was lost, or whose acknowledgement was lost, is
\* delivered again; the new execution starts from the message alone
Redeliver ==
    /\ tpc \in {"stages", "finish", "store", "done"}
    /\ deliveries < MaxRedeliveries
    /\ deliveries' = deliveries + 1
    /\ tpc' = "queued"
    /\ UNCHANGED <<plan, invocations, run_invoked, stage_idx,
                   pipeline_results, has_callback, cb_log, orch_metrics,
                   descriptor_ok, store, retries, webhooks, task_return, now>>
    /\ UNCHANGED nonPipeVars

Next ==
    \/ TaskStart
    \/ TaskBadDescriptor
    \/ StageSucceeds
    \/ StageFails
    \/ StageRaises
    \/ PipelineFinish
    \/ TaskStoreResult
    \/ Redeliver

Spec == Init /\ [][Next]_vars

NextExecute ==
    \/ ValidateOk
    \/ ValidateFalse
    \/ ValidateRaises
    \/ AttemptCompleted
    \/ AttemptTimeout
    \/ AttemptException
    \/ Return

\* a call of execute on an agent built by BaseAgent.__init__, before its
\* first statement; no task is running
InitExecute ==
    /\ IdlePipeline
    /\ IdleRegistry
    /\ IdleBatch
    /\ IdlePath
    /\ IdleRace
    /\ IdleWebhooks
    /\ IdleDoc
    /\ IdleRecovery
    /\ max_retries \in 0..MaxRetriesBound
    /\ retry_delay \in 1..MaxRetryDelay
    /\ input_valid \in {"true", "false", "raise"}
    /\ epc = "validate"
    /\ status = PENDING
    /\ result_data = None
    /\ error = None
    /\ metrics = AgentMetrics
    /\ attempt = 0
    /\ events = <<>>

SpecExecute == InitExecute /\ [][NextExecute]_vars

\* helpers over the event log
Calls == SelectSeq(events, LAMBDA ev : ev.type = "call")
Sleeps == SelectSeq(events, LAMBDA ev : ev.type = "sleep")
AllCalls(o) == \A i \in 1..Len(Calls) : Calls[i].outcome = o

(***************************************************************************)
(* Properties of BaseAgent.execute (checked under SpecExecute)             *)
(***************************************************************************)
Returned == epc = "returned"

\* the first k invocations raised and invocation k+1 returned a value
RaisedThenOk(k) ==
    /\ Len(Calls) >= k + 1
    /\ \A i \in 1..k : Calls[i].outcome = "raise"
    /\ Calls[k + 1].outcome = "ok"

\* C5: with max_retries = N >= 1 and valid input, a body that raises on
\* every attempt is invoked exactly N times and execute returns FAILED with
\* retry_count = N - 1 and the error of the last attempt.
C5_AlwaysRaising ==
    (Returned /\ input_valid = "true" /\ max_retries >= 1 /\ AllCalls("raise"))
        => /\ Len(Calls) = max_retries
           /\ AgentResult.status = FAILED
           /\ AgentResult.retry_count = max_retries - 1
           /\ AgentResult.error = Calls[Len(Calls)].value

C5_Witness ==
    /\ Returned /\ input_valid = "true" /\ max_retries = MaxRetriesBound
    /\ Len(Calls) = MaxRetriesBound /\ AllCalls("raise")

\* C6: for k < max_retries, a body that raises on its first k attempts and
\* returns on attempt k+1 is invoked exactly k+1 times; execute returns
\* COMPLETED with the body's output and retry_count = k.
C6_RaisedThenSucceeded ==
    \A k \in 0..MaxRetriesBound :
        (Returned /\ input_valid = "true" /\ k < max_retries /\ RaisedThenOk(k))
            => /\ Len(Calls) = k + 1
               /\ AgentResult.status = COMPLETED
               /\ AgentResult.data = Calls[k + 1].value
               /\ AgentResult.retry_count = k

C6_Witness ==
    /\ Returned /\ input_valid = "true" /\ max_retries >= 3
    /\ RaisedThenOk(2) /\ Len(Calls) = 3 /\ status = COMPLETED

\* C8: a body that times out on every attempt is attempted exactly
\* max_retries times and execute returns FAILED with the timeout error,
\* never a result whose status is RUNNING or RETRYING.
C8_TimeoutThenFailed ==
    (Returned /\ input_valid = "true" /\ max_retries >= 1 /\ AllCalls("timeout"))
        => /\ Len(Calls) = max_retries
           /\ AgentResult.status = FAILED
           /\ AgentResult.error = TimeoutError

\* C9: whenever attempt k fails (timeout or exception) and another attempt
\* follows, the event right after it is a sleep of retry_delay * 2^k; no
\* sleep follows the final attempt.
C9_ExponentialBackoff ==
    /\ \A i \in 1..Len(events) :
          ( /\ events[i].type = "call"
            /\ events[i].outcome \in {"raise", "timeout"}
            /\ \E j \in (i + 1)..Len(events) : events[j].type = "call" )
              => events[i + 1] =
                    SleepEvent(events[i].attempt,
                               retry_delay * Pow2(events[i].attempt))
    /\ (Returned /\ events # <<>>) => events[Len(events)].type = "call"

\* C10: when validate_input rejects the input, the body is never invoked,
\* nothing is slept, and execute returns FAILED with an error and
\* retry_count 0.
C10_InvalidInputFailsImmediately ==
    (input_valid = "false")
        => /\ events = <<>>
           /\ Returned => /\ AgentResult.status = FAILED
                           /\ AgentResult.error # None
                           /\ AgentResult.retry_count = 0
                           /\ AgentResult.data = None

C10_Witness ==
    Returned /\ input_valid = "false" /\ max_retries >= 2 /\ status = FAILED

\* C11: a body that raises an InvalidInput-class error (ValueError) on its
\* first attempt is attempted exactly once, whatever max_retries is, and
\* execute returns FAILED.
C11_InvalidInputClassNotRetried ==
    ( /\ Returned /\ input_valid = "true" /\ Len(Calls) >= 1
      /\ Calls[1].outcome = "raise" /\ Calls[1].value = BodyValueError )
        => /\ Len(Calls) = 1
           /\ AgentResult.status = FAILED

\* a failure happened in the call: the input was rejected, validate_input
\* raised, or the last invocation of the body raised or timed out
LastFailure ==
    IF input_valid = "false" THEN InvalidInputError
    ELSE IF input_valid = "raise" THEN ValidateRaised
    ELSE IF Len(Calls) > 0 /\ Calls[Len(Calls)].outcome # "ok"
      THEN Calls[Len(Calls)].value
      ELSE None

\* C12: execute never raises: from every position short of the return a
\* step of execute is possible (no exception leaves it), and the returned
\* AgentResult carries a status of AgentStatus and, for every failure mode
\* (rejected input, raising validate_input, raising or timed-out body), a
\* status other than COMPLETED, no data and the error of that failure.
C12_EnvelopeNeverRaises ==
    /\ epc \in {"validate", "loop", "finally", "returned"}
    /\ epc # "returned" => ENABLED NextExecute
    /\ Returned =>
          /\ AgentResult.status \in AgentStatus
          /\ LastFailure # None =>
                /\ AgentResult.status # COMPLETED
                /\ AgentResult.data = None
                /\ AgentResult.error = LastFailure

C12_Witness ==
    /\ Returned /\ input_valid = "true" /\ max_retries >= 2
    /\ Len(Calls) = max_retries
    /\ Calls[1].outcome = "raise"
    /\ Calls[Len(Calls)].outcome = "timeout"

(***************************************************************************)
(* Properties of the pipeline run and of the task (checked under Spec)     *)
(***************************************************************************)
RunEnded == pipeline_results.ended

\* C1: if stage k fails in a run (failure result, or its body raises), no
\* stage after k is invoked in that run, the run ends unsuccessful and the
\* pipeline error is the error of stage k.
C1_HaltOnFirstFailure ==
    \A j \in 1..Len(run_invoked) :
        run_invoked[j].outcome # "success"
            => /\ j = Len(run_invoked)
               /\ tpc # "stages"
               /\ RunEnded =>
                    /\ ~pipeline_results.overall_success
                    /\ pipeline_results.error_details.stage =
                           Stages[run_invoked[j].stage]
                    /\ pipeline_results.error_details.error =
                           run_invoked[j].error

C1_Witness ==
    /\ RunEnded /\ tpc = "done"
    /\ Len(run_invoked) = 2
    /\ run_invoked[2].outcome = "failure"
    /\ task_return = "failed"

\* position of a stage value in the fixed ordering; terminal values last
StageRank(st) ==
    IF st = "initializing" THEN 0
    ELSE IF \E i \in 1..NStages : Stages[i] = st
      THEN CHOOSE i \in 1..NStages : Stages[i] = st
      ELSE NStages + 1

\* C2: over all executions, retries and redeliveries of one job the recorded
\* stage never moves backwards in the stage ordering, and a recorded
\* terminal stage (COMPLETED, FAILED) is never left.
C2_StageMonotonic ==
    [][ /\ StageRank(pipeline_results'.current_stage)
            >= StageRank(pipeline_results.current_stage)
        /\ store.result # NoResult
            => store'.result.stage = store.result.stage ]_vars

\* C3: once the stored pipeline state of the job is COMPLETED or FAILED,
\* executing the task again invokes no stage body and leaves the stored
\* pipeline state, task result and document metadata unchanged.
C3_TerminalReexecutionIsNoOp ==
    [][ store.result.stage \in {"completed", "failed"}
            => /\ invocations' = invocations
               /\ store' = store ]_vars

\* stage results of the job that are durable in the store
DurableStageResults == Cardinality(store.result.agent_results)

\* C4: the state including a stage's result is stored before the next stage
\* is invoked: the stages completed in the run never exceed the stage
\* results durable in the store by more than one.
C4_PersistBeforeProgress ==
    tpc \in {"stages", "finish", "store"}
        => Len(pipeline_results.stages_completed) <= DurableStageResults + 1

\* C7: in the first execution of a job whose stage m (not first, not last)
\* raises twice and then succeeds while the stages before it succeed, the
\* run ends COMPLETED, the body of m was invoked exactly 3 times and stage
\* m+1 ran.
C7_TransientMiddleStage ==
    \A m \in 2..(NStages - 1) :
        ( /\ RunEnded /\ retries = 0 /\ deliveries = 0
          /\ \A i \in 1..(m - 1) :
                plan[i].transient = 0 /\ plan[i].final = "success"
          /\ plan[m].transient = 2 /\ plan[m].final = "success" )
            => /\ pipeline_results.overall_success
               /\ invocations[m] = 3
               /\ \E j \in 1..Len(run_invoked) : run_invoked[j].stage = m + 1

\* the validation stage's output of the current run indicates acceptance
Accepted ==
    /\ pipeline_results.overall_success
    /\ "validation" \in pipeline_results.agent_results
    /\ plan[ValidationIdx].valid

\* C13: the result-storing part of one execution enqueues at most one
\* trigger_webhooks_task; none unless the pipeline completed with an
\* accepting validation output, and exactly one in that case when the
\* execution returns its result (queueing the message did not raise).
C13_WebhookOnAcceptedCompletion ==
    [][ tpc = "store"
          => /\ webhooks' \in {webhooks, webhooks + 1}
             /\ ~Accepted => webhooks' = webhooks
             /\ (Accepted /\ tpc' = "done" /\ task_return' # "error")
                   => webhooks' = webhooks + 1 ]_vars

C13_Witness ==
    /\ tpc = "done" /\ task_return = "completed"
    /\ retries = 0 /\ deliveries = 0
    /\ Accepted /\ webhooks = 1

\* C17: when a write of the task result, of the job state or of the document
\* status fails during an execution, the execution does not return a result
\* and does not enqueue the webhook task.
C17_StoreFailureAbortsAttempt ==
    [][ ( /\ tpc = "store" /\ now' = now + 1
          /\ \/ store'.result.completed_at # now
             \/ store'.doc.updated_at # now
             \/ pipeline_results.overall_success
                  /\ store'.job_state.completed_at # now )
          => /\ ~(tpc' = "done" /\ task_return' \in {"completed", "failed"})
             /\ webhooks' = webhooks ]_vars

-----------------------------------------------------------------------------
\* trigger_webhooks_task (tasks.py) over the webhook registry of
\* RedisStateManager (state_manager.py)

MaxWebhooks == 2

\* the event name of the payload built by process_document_task
ProcessedEvent == "document.processed"

\* a registration as stored by the register and update endpoints: events is
\* a list of names, or null after an update that sent "events": null
Registrations ==
    [active : BOOLEAN, events_null : {FALSE},
     events : {{ProcessedEvent}, {"document.failed"}}]
      \cup [active : BOOLEAN, events_null : {TRUE}, events : {{}}]

Registries == UNION {[ids -> Registrations] : ids \in SUBSET (1..MaxWebhooks)}

\* state_manager.py get_webhook: the stored value, None when the key is
\* absent and None as well when Redis raises
get_webhook(reg, id, redis) ==
    IF redis = "down" THEN [found |-> FALSE]
    ELSE IF id \in DOMAIN reg THEN [found |-> TRUE, value |-> reg[id]]
    ELSE [found |-> FALSE]

\* state_manager.py list_webhooks: the ids of the index whose value is
\* returned (all of them, or the active ones), nothing when Redis raises
list_webhooks(reg, redis, active_only) ==
    IF redis = "down" THEN {}
    ELSE {id \in DOMAIN reg :
             /\ get_webhook(reg, id, redis).found
             /\ ~active_only \/ reg[id].active}

\* smembers returns the index in no particular order
Orders(ids) ==
    {o \in [1..Cardinality(ids) -> ids] :
        \A j, k \in 1..Cardinality(ids) : j # k => o[j] # o[k]}

\* the value of the "status" key of a details entry
DetailStatus(response) ==
    CASE response = "2xx" -> "success"
      [] response = "non2xx" -> "failed"
      [] response = "raise" -> "error"

Current == registry[listed[hook_i]]

InitWebhooks ==
    /\ IdleExecute
    /\ IdlePipeline
    /\ IdleRegistry
    /\ IdleBatch
    /\ IdlePath
    /\ IdleRace
    /\ IdleDoc
    /\ IdleRecovery
    /\ registry \in Registries
    /\ hpc = "list"
    /\ list_redis = "ok"
    /\ listed = <<>>
    /\ hook_i = 0
    /\ posted = <<>>
    /\ hook_results = [webhooks_triggered |-> 0, webhooks_failed |-> 0,
                       details |-> <<>>]

\* tasks.py line 195
DispatchList ==
    /\ hpc = "list"
    /\ \E redis \in {"ok", "down"} :
          /\ list_redis' = redis
          /\ listed' \in Orders(list_webhooks(registry, redis, TRUE))
    /\ hpc' = "loop"
    /\ hook_i' = 1
    /\ UNCHANGED <<registry, posted, hook_results>>
    /\ UNCHANGED nonHookVars

\* tasks.py lines 197-204: the two "continue" statements
DispatchSkip ==
    /\ hpc = "loop"
    /\ hook_i <= Len(listed)
    /\ \/ ~Current.active
       \/ /\ ~Current.events_null
          /\ ProcessedEvent \notin Current.events
    /\ hook_i' = hook_i + 1
    /\ UNCHANGED <<registry, hpc, list_redis, listed, posted, hook_results>>
    /\ UNCHANGED nonHookVars

\* tasks.py lines 203, 241-242: "not in" applied to null raises TypeError
\* outside the inner try; the outer handler logs it and the loop is over
DispatchEventsNull ==
    /\ hpc = "loop"
    /\ hook_i <= Len(listed)
    /\ Current.active
    /\ Current.events_null
    /\ hpc' = "returned"
    /\ UNCHANGED <<registry, list_redis, listed, hook_i, posted,
                   hook_results>>
    /\ UNCHANGED nonHookVars

\* variant: a transport exception is not caught per endpoint
DispatchPost_ExceptionEscapes ==
    /\ hpc = "loop"
    /\ hook_i <= Len(listed)
    /\ Current.active
    /\ ~Current.events_null
    /\ ProcessedEvent \in Current.events
    /\ \E response \in {"2xx", "non2xx", "raise"} :
          /\ posted' = Append(posted, [id |-> listed[hook_i],
                                        response |-> response])
          /\ IF response = "raise"
               THEN /\ hpc' = "returned"
                    /\ UNCHANGED <<hook_i, hook_results>>
               ELSE /\ hook_results' =
                         [webhooks_triggered |->
                             hook_results.webhooks_triggered
                               + (IF response = "2xx" THEN 1 ELSE 0),
                          webhooks_failed |->
                             hook_results.webhooks_failed
                               + (IF response = "2xx" THEN 0 ELSE 1),
                          details |->
                             Append(hook_results.details,
                                    [webhook_id |-> listed[hook_i],
                                     status |-> DetailStatus(response)])]
                    /\ hook_i' = hook_i + 1
                    /\ hpc' = hpc
    /\ UNCHANGED <<registry, list_redis, listed>>
    /\ UNCHANGED nonHookVars

\* tasks.py lines 206-240: one POST, and one details entry whatever happens
DispatchPost ==
    /\ hpc = "loop"
    /\ hook_i <= Len(listed)
    /\ Current.active
    /\ ~Current.events_null
    /\ ProcessedEvent \in Current.events
    /\ \E response \in {"2xx", "non2xx", "raise"} :
          /\ posted' = Append(posted, [id |-> listed[hook_i],
                                        response |-> response])
          /\ hook_results' =
                [webhooks_triggered |->
                    hook_results.webhooks_triggered
                      + (IF response = "2xx" THEN 1 ELSE 0),
                 webhooks_failed |->
                    hook_results.webhooks_failed
                      + (IF response = "2xx" THEN 0 ELSE 1),
                 details |->
                    Append(hook_results.details,
                           [webhook_id |-> listed[hook_i],
                            status |-> DetailStatus(response)])]
    /\ hook_i' = hook_i + 1
    /\ UNCHANGED <<registry, hpc, list_redis, listed>>
    /\ UNCHANGED nonHookVars

\* tasks.py line 244
DispatchReturn ==
    /\ hpc = "loop"
    /\ hook_i > Len(listed)
    /\ hpc' = "returned"
    /\ UNCHANGED <<registry, list_redis, listed, hook_i, posted,
                   hook_results>>
    /\ UNCHANGED nonHookVars

NextWebhooks ==
    \/ DispatchList
    \/ DispatchSkip
    \/ DispatchEventsNull
    \/ DispatchPost
    \/ DispatchReturn

SpecWebhooks == InitWebhooks /\ [][NextWebhooks]_vars

\* the registrations that are active and subscribed to the payload's event
Subscribers ==
    {id \in DOMAIN registry :
        /\ registry[id].active
        /\ ~registry[id].events_null
        /\ ProcessedEvent \in registry[id].events}

PostedTo == {posted[k].id : k \in 1..Len(posted)}

\* C14: when trigger_webhooks_task has returned, the endpoints that received
\* a POST are exactly the active registrations subscribed to the payload's
\* event.
C14_PostsToExactlySubscribers ==
    hpc = "returned" => PostedTo = Subscribers

\* C15: every POST is to a different endpoint and has its own details entry
\* with the outcome of that POST; webhooks_triggered counts the 2xx answers,
\* webhooks_failed the other answers and the exceptions; and the task
\* always reaches its return statement.
C15_OutcomesRecordedPerEndpoint ==
    /\ \A j, k \in 1..Len(posted) : j # k => posted[j].id # posted[k].id
    /\ hpc \in {"loop", "returned"} =>
          LET last == IF hpc = "loop" THEN hook_i - 1 ELSE Len(listed)
              seen == {listed[k] : k \in 1..last}
          IN  \/ PostedTo = seen \cap Subscribers
              \/ /\ hpc = "returned"
                 /\ PostedTo \subseteq Subscribers
                 /\ \E k \in 1..Len(listed) : registry[listed[k]].events_null
    /\ Len(hook_results.details) = Len(posted)
    /\ \A k \in 1..Len(posted) :
          /\ hook_results.details[k].webhook_id = posted[k].id
          /\ hook_results.details[k].status = DetailStatus(posted[k].response)
    /\ hook_results.webhooks_triggered =
          Cardinality({k \in 1..Len(posted) : posted[k].response = "2xx"})
    /\ hook_results.webhooks_failed =
          Cardinality({k \in 1..Len(posted) :
                          posted[k].response \in {"non2xx", "raise"}})
    /\ hpc # "returned" => ENABLED NextWebhooks

\* the scenario of one endpoint answering 500 and another answering 200
C15_Witness ==
    /\ hpc = "returned"
    /\ Len(posted) = 2
    /\ posted[1].response = "non2xx"
    /\ posted[2].response = "2xx"
    /\ hook_results.webhooks_triggered = 1
    /\ hook_results.webhooks_failed = 1

\* C16: what list_webhooks returns when Redis cannot be reached differs from
\* what it returns when no webhook is registered, and so does get_webhook
\* from the value for an absent key.
C16_OutageDistinctFromNotFound ==
    (hpc # "list" /\ list_redis = "down")
       => /\ listed \notin Orders(list_webhooks(<<>>, "ok", TRUE))
          /\ \A id \in DOMAIN registry :
                get_webhook(registry, id, "down") # get_webhook(<<>>, id, "ok")

-----------------------------------------------------------------------------
\* The writers of one doc:{document_id} value: the upload handler and the
\* status query (main.py), update_document_status called by the task
\* (state_manager.py), recover_pending_tasks and log_task_failure
\* (worker_signals.py). Each holds a dictionary between its get and its set.

Writers == {"upload", "worker", "query", "recovery", "failure", "admin"}

Fields == {"status", "celery_task_id", "updated_at", "error",
           "auto_recovered"}

\* the keys each writer assigns before it stores its dictionary
Touched(w) ==
    CASE w = "upload" -> {"celery_task_id"}
      [] w = "worker" -> {"status", "updated_at"}
      [] w = "query" -> {"status"}
      [] w = "recovery" -> {"celery_task_id", "status", "auto_recovered"}
      [] w = "failure" -> {"status", "error"}
      [] w = "admin" -> {"celery_task_id", "status"}

\* main.py lines 284-295: the dictionary built by the upload handler
UploadedMetadata ==
    [status |-> "processing", celery_task_id |-> "None",
     updated_at |-> "None", error |-> "None", auto_recovered |-> "None"]

\* state_manager.py line 42: ttl = 86400, passed to setex
DocumentTTL == 86400

\* what the TTL command answers for a key stored by a plain set
NoExpiry == -1

\* AsyncResult(...).status of the task enqueued by the upload handler
CeleryStatus ==
    CASE wpc["worker"] = "queued" -> "PENDING"
      [] wpc["worker"] \in {"running", "write"} -> "STARTED"
      [] wpc["worker"] = "done" -> "SUCCESS"
      [] wpc["worker"] = "failed" -> "FAILURE"
      [] wpc["worker"] = "retry" -> "RETRY"
      [] wpc["worker"] = "revoked" -> "REVOKED"
      [] wpc["worker"] = "expired" -> "PENDING"
      [] OTHER -> "PENDING"

\* AsyncResult(handle).status: the tasks sent by the scan and by the admin
\* retry are not taken by a worker here
TaskStatus(handle) == IF handle = "t1" THEN CeleryStatus ELSE "PENDING"

\* variant: a state that is not in the table has no default
status_map_NoDefault(celery_status) ==
    CASE celery_status \in {"PENDING", "STARTED", "RETRY"} -> "processing"
      [] celery_status = "SUCCESS" -> "completed"
      [] celery_status = "FAILURE" -> "failed"
      [] OTHER -> "unknown"

\* main.py lines 371-378
status_map(celery_status) ==
    CASE celery_status \in {"PENDING", "STARTED", "RETRY"} -> "processing"
      [] celery_status = "SUCCESS" -> "completed"
      [] celery_status = "FAILURE" -> "failed"
      [] OTHER -> "processing"

\* the state after the first set_document_metadata of the upload handler
InitDoc ==
    /\ IdleExecute
    /\ IdlePipeline
    /\ IdleRegistry
    /\ IdleBatch
    /\ IdlePath
    /\ IdleRace
    /\ IdleWebhooks
    /\ IdleRecovery
    /\ doc_rec = UploadedMetadata
    /\ wpc = [w \in Writers |-> IF w = "upload" THEN "enqueue" ELSE "idle"]
    /\ local = [w \in Writers |-> UploadedMetadata]
    /\ doc_ttl = DocumentTTL
    /\ revoked = {}

\* the whole dictionary held by writer w is stored: by setex with the
\* document TTL (set_document_metadata) or by a plain set, which drops the
\* expiry of the key
StoreLocal(w, metadata, ttl) ==
    /\ doc_rec' = metadata
    /\ doc_ttl' = ttl
    /\ local' = [local EXCEPT ![w] = metadata]
    /\ wpc' = [wpc EXCEPT ![w] = "done"]

\* get of the value into the dictionary held by writer w
LoadLocal(w, next) ==
    /\ local' = [local EXCEPT ![w] = doc_rec]
    /\ wpc' = [wpc EXCEPT ![w] = next]
    /\ UNCHANGED <<doc_rec, doc_ttl>>

\* main.py lines 324-327: process_document_task.delay
UploadEnqueue ==
    /\ wpc["upload"] = "enqueue"
    /\ wpc' = [wpc EXCEPT !["upload"] = "write", !["worker"] = "queued"]
    /\ UNCHANGED <<doc_rec, local, doc_ttl, revoked>>
    /\ UNCHANGED nonDocVars

\* main.py lines 330-332: the handle is added to the handler's dictionary,
\* which is stored whole
UploadRecordHandle ==
    /\ wpc["upload"] = "write"
    /\ StoreLocal("upload",
                  [local["upload"] EXCEPT !.celery_task_id = "t1"],
                  DocumentTTL)
    /\ UNCHANGED revoked
    /\ UNCHANGED nonDocVars

\* a worker takes the task, unless it was revoked
WorkerStart ==
    /\ wpc["worker"] \in {"queued", "retry"}
    /\ "t1" \notin revoked
    /\ wpc' = [wpc EXCEPT !["worker"] = "running"]
    /\ UNCHANGED <<doc_rec, local, doc_ttl, revoked>>
    /\ UNCHANGED nonDocVars

\* tasks.py lines 147-154: the execution raised and the task is retried
WorkerRetry ==
    /\ wpc["worker"] = "running"
    /\ wpc' = [wpc EXCEPT !["worker"] = "retry"]
    /\ UNCHANGED <<doc_rec, local, doc_ttl, revoked>>
    /\ UNCHANGED nonDocVars

\* main.py line 763: a worker that receives a revoked task discards it
WorkerDiscard ==
    /\ wpc["worker"] \in {"queued", "retry"}
    /\ "t1" \in revoked
    /\ wpc' = [wpc EXCEPT !["worker"] = "revoked"]
    /\ UNCHANGED <<doc_rec, local, doc_ttl, revoked>>
    /\ UNCHANGED nonDocVars

\* state_manager.py line 68, called from tasks.py line 124
WorkerGet ==
    /\ wpc["worker"] = "running"
    /\ LoadLocal("worker", "write")
    /\ UNCHANGED revoked
    /\ UNCHANGED nonDocVars

\* state_manager.py lines 69-72
WorkerSet ==
    /\ wpc["worker"] = "write"
    /\ StoreLocal("worker",
                  [local["worker"] EXCEPT !.status = "completed",
                                          !.updated_at = "set"],
                  DocumentTTL)
    /\ UNCHANGED revoked
    /\ UNCHANGED nonDocVars

\* celery_app.py line 32: the hard time limit ends the task as a failure
WorkerTimeLimit ==
    /\ wpc["worker"] = "running"
    /\ wpc' = [wpc EXCEPT !["worker"] = "failed"]
    /\ UNCHANGED <<doc_rec, local, doc_ttl, revoked>>
    /\ UNCHANGED nonDocVars

\* celery_app.py line 30 (result_expires=3600): the result backend forgets
\* a finished task, and AsyncResult reports its handle as PENDING again
ResultExpires ==
    /\ wpc["worker"] \in {"done", "failed"}
    /\ wpc' = [wpc EXCEPT !["worker"] = "expired"]
    /\ UNCHANGED <<doc_rec, local, doc_ttl, revoked>>
    /\ UNCHANGED nonDocVars

\* worker_signals.py line 133
FailureGet ==
    /\ wpc["worker"] = "failed"
    /\ wpc["failure"] = "idle"
    /\ LoadLocal("failure", "write")
    /\ UNCHANGED revoked
    /\ UNCHANGED nonDocVars

\* worker_signals.py lines 136-140
FailureSet ==
    /\ wpc["failure"] = "write"
    /\ StoreLocal("failure",
                  [local["failure"] EXCEPT !.status = "failed",
                                           !.error = "set"],
                  NoExpiry)
    /\ UNCHANGED revoked
    /\ UNCHANGED nonDocVars

\* main.py lines 350-362: the status query reads the record
QueryGet ==
    /\ wpc["query"] = "idle"
    /\ LoadLocal("query", "write")
    /\ UNCHANGED revoked
    /\ UNCHANGED nonDocVars

\* main.py lines 364-384: the mapped status is written back when it differs
\* from the status read
QuerySet ==
    /\ wpc["query"] = "write"
    /\ IF /\ local["query"].celery_task_id # "None"
          /\ status_map(TaskStatus(local["query"].celery_task_id))
                # local["query"].status
         THEN StoreLocal("query",
                  [local["query"] EXCEPT
                      !.status =
                         status_map(TaskStatus(local["query"].celery_task_id))],
                  DocumentTTL)
         ELSE /\ wpc' = [wpc EXCEPT !["query"] = "done"]
              /\ UNCHANGED <<doc_rec, local, doc_ttl>>
    /\ UNCHANGED revoked
    /\ UNCHANGED nonDocVars

\* worker_signals.py lines 42-44: the scan of a starting worker reads the
\* record
RecoveryGet ==
    /\ wpc["recovery"] = "idle"
    /\ wpc["upload"] # "enqueue"
    /\ LoadLocal("recovery", "write")
    /\ UNCHANGED revoked
    /\ UNCHANGED nonDocVars

\* variant: the scan revokes the task it replaces
RecoverySet_RevokesOld ==
    /\ wpc["recovery"] = "write"
    /\ \E old_enough \in BOOLEAN :
          IF /\ local["recovery"].celery_task_id # "None"
             /\ TaskStatus(local["recovery"].celery_task_id) = "PENDING"
             /\ old_enough
            THEN /\ StoreLocal("recovery",
                     [local["recovery"] EXCEPT !.celery_task_id = "t2",
                                               !.status = "processing",
                                               !.auto_recovered = "set"],
                     NoExpiry)
                 /\ revoked' = revoked \cup {local["recovery"].celery_task_id}
            ELSE /\ wpc' = [wpc EXCEPT !["recovery"] = "done"]
                 /\ UNCHANGED <<doc_rec, local, doc_ttl, revoked>>
    /\ UNCHANGED nonDocVars

\* worker_signals.py lines 47-99: a record with a handle whose task is
\* PENDING and that is old enough is stored with the new handle
RecoverySet ==
    /\ wpc["recovery"] = "write"
    /\ \E old_enough \in BOOLEAN :
          IF /\ local["recovery"].celery_task_id # "None"
             /\ TaskStatus(local["recovery"].celery_task_id) = "PENDING"
             /\ old_enough
            THEN StoreLocal("recovery",
                     [local["recovery"] EXCEPT !.celery_task_id = "t2",
                                               !.status = "processing",
                                               !.auto_recovered = "set"],
                     NoExpiry)
            ELSE /\ wpc' = [wpc EXCEPT !["recovery"] = "done"]
                 /\ UNCHANGED <<doc_rec, local, doc_ttl>>
    /\ UNCHANGED revoked
    /\ UNCHANGED nonDocVars

\* main.py lines 750-756: the admin retry reads the record
AdminGet ==
    /\ wpc["admin"] = "idle"
    /\ LoadLocal("admin", "revoke")
    /\ UNCHANGED revoked
    /\ UNCHANGED nonDocVars

\* main.py lines 759-763: the old task is revoked when the record has a
\* handle and its status is PENDING
AdminRevoke ==
    /\ wpc["admin"] = "revoke"
    /\ revoked' = IF /\ local["admin"].celery_task_id # "None"
                     /\ TaskStatus(local["admin"].celery_task_id) = "PENDING"
                    THEN revoked \cup {local["admin"].celery_task_id}
                    ELSE revoked
    /\ wpc' = [wpc EXCEPT !["admin"] = "write"]
    /\ UNCHANGED <<doc_rec, local, doc_ttl>>
    /\ UNCHANGED nonDocVars

\* main.py lines 765-793: a new task is sent and the record stored with its
\* handle
AdminSet ==
    /\ wpc["admin"] = "write"
    /\ StoreLocal("admin",
                  [local["admin"] EXCEPT !.celery_task_id = "t3",
                                         !.status = "processing"],
                  NoExpiry)
    /\ UNCHANGED revoked
    /\ UNCHANGED nonDocVars

NextDoc ==
    \/ UploadEnqueue
    \/ UploadRecordHandle
    \/ WorkerStart
    \/ WorkerRetry
    \/ WorkerDiscard
    \/ WorkerGet
    \/ WorkerSet
    \/ WorkerTimeLimit
    \/ ResultExpires
    \/ FailureGet
    \/ FailureSet
    \/ QueryGet
    \/ QuerySet
    \/ RecoveryGet
    \/ RecoverySet
    \/ AdminGet
    \/ AdminRevoke
    \/ AdminSet

SpecDoc == InitDoc /\ [][NextDoc]_vars

\* C18: a writer that stores the record changes only the keys it assigns;
\* every other key keeps the value the record had just before the store, so
\* no completed write of another writer is undone.
C18_NoLostUpdate ==
    [][ \A w \in Writers :
          (wpc[w] = "write" /\ wpc'[w] = "done")
             => \A f \in Fields \ Touched(w) : doc_rec'[f] = doc_rec[f] ]_vars

-----------------------------------------------------------------------------
\* recover_pending_tasks (worker_signals.py): the scan of doc:* run when a
\* worker becomes ready

MaxDocs == 2
MaxAge == 6

\* timedelta(minutes=5)
Grace == 5

\* variant: a record exactly as old as the grace period is recovered
OldEnough_Inclusive(age) == age >= Grace

\* worker_signals.py line 63
OldEnough(age) == age > Grace

\* A doc:* value as the scan meets it. raw: the key expired after keys(),
\* the value is not JSON, or it is a dictionary; queue_status: the status
\* AsyncResult reports, or "raise" when the result backend cannot be asked;
\* uploaded: uploaded_at is missing or empty, is not an ISO date, or is one,
\* and then age is the whole minutes from it to the scan; ext: the extension
\* of the uploaded file, one of settings.allowed_extensions.
Unreadable ==
    [raw : {"absent", "bad_json"}, celery_task_id : {"None"},
     queue_status : {"PENDING"}, uploaded : {"missing"}, age : {0},
     status : {"processing"}, auto_recovered : {FALSE},
     recovery_time : {"None"}, ext : {".pdf"}]

NoHandle ==
    [raw : {"ok"}, celery_task_id : {"None"},
     queue_status : {"PENDING"}, uploaded : {"iso"}, age : {Grace + 1},
     status : {"processing"}, auto_recovered : {FALSE},
     recovery_time : {"None"}, ext : {".pdf"}]

NotPending ==
    [raw : {"ok"}, celery_task_id : {"t1"},
     queue_status : {"STARTED", "SUCCESS", "FAILURE", "raise"},
     uploaded : {"iso"}, age : {Grace, Grace + 1},
     status : {"processing"}, auto_recovered : {FALSE},
     recovery_time : {"None"}, ext : {".pdf"}]

PendingUndated ==
    [raw : {"ok"}, celery_task_id : {"t1"},
     queue_status : {"PENDING"}, uploaded : {"missing", "bad"}, age : {0},
     status : {"processing"}, auto_recovered : {FALSE},
     recovery_time : {"None"}, ext : {".pdf"}]

PendingDated ==
    [raw : {"ok"}, celery_task_id : {"t1"},
     queue_status : {"PENDING"}, uploaded : {"iso"}, age : 0..MaxAge,
     status : {"processing"}, auto_recovered : {FALSE},
     recovery_time : {"None"}, ext : {".pdf", ".png"}]

ScannedRecords ==
    Unreadable \cup NoHandle \cup NotPending \cup PendingUndated
       \cup PendingDated

\* worker_signals.py lines 43-63: the conditions under which the scan
\* reaches the requeueing block without an exception; a backend that cannot
\* be asked and a date that cannot be parsed raise into the per-record
\* handler
Recoverable(rec) ==
    /\ rec.raw = "ok"
    /\ rec.celery_task_id # "None"
    /\ rec.queue_status = "PENDING"
    /\ rec.uploaded = "iso"
    /\ OldEnough(rec.age)

\* main.py lines 303-327: the arguments of the task sent at upload for
\* document i; mime_type, file_size and content_hash are the values stored
\* in the record, the file is named after the document and its extension
UploadDescriptor(i, rec) ==
    [job_id |-> i, document_id |-> i, file_path |-> <<i, rec.ext>>]

\* worker_signals.py lines 68-82 (and main.py lines 766-781): the arguments
\* of the task sent again for document i
ResubmittedDescriptor(i, rec) ==
    [job_id |-> i, document_id |-> i, file_path |-> <<i, ".pdf">>]

\* variant: the stored record keeps the old task handle
Recovered_KeepsHandle(rec) ==
    [rec EXCEPT !.status = "processing",
                !.auto_recovered = TRUE,
                !.recovery_time = "scan"]

\* worker_signals.py lines 90-93
Recovered(rec) ==
    [rec EXCEPT !.celery_task_id = "t_new",
                !.status = "processing",
                !.auto_recovered = TRUE,
                !.recovery_time = "scan"]

InitRecovery ==
    /\ IdleExecute
    /\ IdlePipeline
    /\ IdleRegistry
    /\ IdleBatch
    /\ IdlePath
    /\ IdleRace
    /\ IdleWebhooks
    /\ IdleDoc
    /\ rec_docs \in [1..MaxDocs -> ScannedRecords]
    /\ rec_before = rec_docs
    /\ rpc = "keys"
    /\ scan_i = 0
    /\ enqueued = <<>>
    /\ rec_faults = {}

\* worker_signals.py lines 27-36, 110-111: when Redis cannot be reached the
\* outer handler logs the error and the scan is over
ScanKeys ==
    /\ rpc = "keys"
    /\ \E redis \in {"ok", "down"} :
          IF redis = "ok"
            THEN /\ rpc' = "loop"
                 /\ scan_i' = 1
            ELSE /\ rpc' = "aborted"
                 /\ scan_i' = scan_i
    /\ UNCHANGED <<rec_docs, rec_before, enqueued, rec_faults>>
    /\ UNCHANGED nonRecVars

\* variant: a record that cannot be handled ends the scan
ScanSkip_Aborts ==
    /\ rpc = "loop"
    /\ scan_i <= MaxDocs
    /\ ~Recoverable(rec_docs[scan_i])
    /\ rpc' = IF \/ rec_docs[scan_i].raw = "bad_json"
                 \/ rec_docs[scan_i].uploaded = "bad"
                 \/ rec_docs[scan_i].queue_status = "raise"
                THEN "aborted" ELSE rpc
    /\ scan_i' = scan_i + 1
    /\ UNCHANGED <<rec_docs, rec_before, enqueued, rec_faults>>
    /\ UNCHANGED nonRecVars

\* worker_signals.py lines 40-63, 101-103: the record is passed over by a
\* continue, by a false condition or by the per-record handler
ScanSkip ==
    /\ rpc = "loop"
    /\ scan_i <= MaxDocs
    /\ ~Recoverable(rec_docs[scan_i])
    /\ scan_i' = scan_i + 1
    /\ UNCHANGED <<rec_docs, rec_before, rpc, enqueued, rec_faults>>
    /\ UNCHANGED nonRecVars

\* worker_signals.py lines 42, 101-103: r.get raises
ScanGetFails ==
    /\ rpc = "loop"
    /\ scan_i <= MaxDocs
    /\ rec_faults' = rec_faults \cup {scan_i}
    /\ scan_i' = scan_i + 1
    /\ UNCHANGED <<rec_docs, rec_before, rpc, enqueued>>
    /\ UNCHANGED nonRecVars

\* worker_signals.py lines 64-103: a new task is sent and the record is
\* stored with its handle; delay or r.set may raise into the per-record
\* handler
ScanRecover ==
    /\ rpc = "loop"
    /\ scan_i <= MaxDocs
    /\ Recoverable(rec_docs[scan_i])
    /\ \E fault \in {"none", "delay", "set"} :
          /\ enqueued' = IF fault = "delay" THEN enqueued
                         ELSE Append(enqueued,
                                     ResubmittedDescriptor(scan_i,
                                                           rec_docs[scan_i]))
          /\ rec_docs' = IF fault = "none"
                           THEN [rec_docs EXCEPT
                                   ![scan_i] = Recovered(rec_docs[scan_i])]
                           ELSE rec_docs
          /\ rec_faults' = IF fault = "none" THEN rec_faults
                           ELSE rec_faults \cup {scan_i}
    /\ scan_i' = scan_i + 1
    /\ UNCHANGED <<rec_before, rpc>>
    /\ UNCHANGED nonRecVars

\* worker_signals.py lines 105-108
ScanDone ==
    /\ rpc = "loop"
    /\ scan_i > MaxDocs
    /\ rpc' = "done"
    /\ UNCHANGED <<rec_docs, rec_before, scan_i, enqueued, rec_faults>>
    /\ UNCHANGED nonRecVars

NextRecovery ==
    \/ ScanKeys
    \/ ScanSkip
    \/ ScanGetFails
    \/ ScanRecover
    \/ ScanDone

SpecRecovery == InitRecovery /\ [][NextRecovery]_vars

\* the number of tasks the scan has sent for document i
Enqueues(i) ==
    Cardinality({k \in 1..Len(enqueued) : enqueued[k].document_id = i})

\* C19: a record whose uploaded_at is at most the grace period before the
\* scan gets no task and keeps its value, whatever the queue reports for
\* its handle.
C19_YoungNeverRequeued ==
    \A i \in DOMAIN rec_before :
       ( /\ rec_before[i].raw = "ok"
         /\ rec_before[i].uploaded = "iso"
         /\ rec_before[i].age <= Grace )
          => /\ Enqueues(i) = 0
             /\ rec_docs[i] = rec_before[i]

\* a finished scan that met a PENDING record exactly as old as the grace
\* period, and requeued another record
C19_Witness ==
    /\ rpc = "done"
    /\ \E i, j \in DOMAIN rec_before :
          /\ rec_before[i].celery_task_id # "None"
          /\ rec_before[i].queue_status = "PENDING"
          /\ rec_before[i].uploaded = "iso"
          /\ rec_before[i].age = Grace
          /\ Enqueues(j) = 1

\* C20: after a scan in which Redis and the broker answered for the record,
\* a well-formed record with a handle whose task is PENDING and whose
\* uploaded_at is older than the grace period has got exactly one new task
\* and is stored with the new handle, auto_recovered and a recovery time.
C20_StuckAlwaysRequeued ==
    rpc = "done" =>
       \A i \in DOMAIN rec_before :
          ( /\ rec_before[i].raw = "ok"
            /\ rec_before[i].celery_task_id # "None"
            /\ rec_before[i].queue_status = "PENDING"
            /\ rec_before[i].uploaded = "iso"
            /\ rec_before[i].age > Grace
            /\ i \notin rec_faults )
             => /\ Enqueues(i) = 1
                /\ rec_docs[i].celery_task_id \notin
                      {"None", rec_before[i].celery_task_id}
                /\ rec_docs[i].auto_recovered = TRUE
                /\ rec_docs[i].recovery_time # "None"

C20_Witness ==
    /\ rpc = "done"
    /\ rec_faults = {}
    /\ \E i \in DOMAIN rec_before :
          /\ rec_before[i].queue_status = "PENDING"
          /\ rec_before[i].celery_task_id # "None"
          /\ rec_before[i].uploaded = "iso"
          /\ rec_before[i].age = Grace + 1
          /\ Enqueues(i) = 1
          /\ rec_docs[i].auto_recovered = TRUE

\* a value the scan cannot handle: not JSON, a date that does not parse,
\* or a handle whose status cannot be looked up
Malformed(rec) ==
    \/ rec.raw = "bad_json"
    \/ rec.raw = "ok" /\ rec.celery_task_id # "None"
         /\ rec.queue_status = "raise"
    \/ rec.raw = "ok" /\ rec.celery_task_id # "None"
         /\ rec.queue_status = "PENDING" /\ rec.uploaded = "bad"

\* C21: a malformed record gets no task and keeps its value, and so does a
\* record whose enqueue failed; the scan stops early only when the key
\* listing itself fails, otherwise it goes through every record, recovers
\* each eligible one at which Redis and the broker answered, and always
\* returns to the worker.
C21_ScanSkipsMalformed ==
    /\ rpc \in {"keys", "loop", "done", "aborted"}
    /\ rpc \in {"keys", "loop"} => ENABLED NextRecovery
    /\ rpc = "aborted" => scan_i = 0
    /\ rpc = "done" => scan_i = MaxDocs + 1
    /\ \A i \in DOMAIN rec_before :
          /\ Malformed(rec_before[i]) =>
                /\ Enqueues(i) = 0
                /\ rec_docs[i] = rec_before[i]
          /\ Enqueues(i) = 0 => rec_docs[i] = rec_before[i]
          /\ ( /\ rpc = "done"
               /\ \E j \in DOMAIN rec_before : Malformed(rec_before[j])
               /\ rec_before[i].raw = "ok"
               /\ rec_before[i].celery_task_id # "None"
               /\ rec_before[i].queue_status = "PENDING"
               /\ rec_before[i].uploaded = "iso"
               /\ rec_before[i].age > Grace
               /\ i \notin rec_faults )
                => /\ Enqueues(i) = 1
                   /\ rec_docs[i].auto_recovered = TRUE

\* a scan that met a record that is not JSON first and recovered the next
C21_Witness ==
    /\ rpc = "done"
    /\ rec_before[1].raw = "bad_json"
    /\ rec_docs[1] = rec_before[1]
    /\ Enqueues(2) = 1
    /\ rec_docs[2].auto_recovered = TRUE

\* C22: every task the scan sends carries the descriptor that the upload of
\* that document created: same job_id, document_id and input reference.
C22_ResubmittedDescriptorEquivalent ==
    \A k \in 1..Len(enqueued) :
       enqueued[k] = UploadDescriptor(enqueued[k].document_id,
                                      rec_before[enqueued[k].document_id])

C30_DocumentAlwaysExpires ==
    doc_ttl # NoExpiry

-----------------------------------------------------------------------------
\* The status and schema queries of main.py over the state of the job

\* AsyncResult(celery_task_id).status of process_document_task: the task
\* returns a dictionary on every path, so once it has returned the state is
\* SUCCESS (tasks.py lines 141, 156-162); RETRY after self.retry
TaskState ==
    CASE tpc = "done" -> "SUCCESS"
      [] tpc = "queued" /\ retries > 0 -> "RETRY"
      [] tpc = "queued" /\ deliveries = 0 -> "PENDING"
      [] OTHER -> "STARTED"

\* the "agent_results" of the dictionary the task returned: the outputs of
\* the run, none in the error dictionary of tasks.py lines 156-162
ReturnedAgentResults ==
    IF tpc = "done" /\ task_return \in {"completed", "failed"}
      THEN pipeline_results.agent_results ELSE {}

\* the entry that main.py reads as agent_results["schema"] is the output of
\* the schema generation stage
HasSchema(agent_results) == "schema_generation" \in agent_results

\* main.py lines 364-379, 415-424: the "status" of the answer of
\* get_document_status for a record that has a task handle
QueriedStatus == status_map(TaskState)

\* variant: the stored result is served whatever the state of the task
get_document_schema_IgnoresTaskState ==
    IF HasSchema(ReturnedAgentResults) \/ HasSchema(store.result.agent_results)
      THEN "payload" ELSE "404"

\* main.py lines 442-492 for a record that has a task handle: 400 unless
\* the task has returned, then the schema of the returned dictionary, else
\* the schema of the stored result, else 404
get_document_schema ==
    IF TaskState # "SUCCESS" THEN "400"
    ELSE IF HasSchema(ReturnedAgentResults) THEN "payload"
    ELSE IF HasSchema(store.result.agent_results) THEN "payload"
    ELSE "404"

\* C24: once the task has ended with a failed pipeline or with its retries
\* exhausted, the status query answers "failed" and the stored document
\* status is not "completed".
C24_FailedPipelineReportedFailed ==
    (tpc = "done" /\ task_return \in {"failed", "error"})
       => /\ QueriedStatus = "failed"
          /\ store.doc.status # "completed"

ExternalStatuses == {"processing", "completed", "failed"}

\* C25: the status query of a stored record answers with a status of the
\* external vocabulary; when the record has a task handle, PENDING, STARTED
\* and RETRY give processing, SUCCESS gives completed, FAILURE gives failed,
\* and any other state gives one of the three.
C25_StatusInExternalVocabulary ==
    [][ (wpc["query"] = "write" /\ wpc'["query"] = "done")
          => LET handle == local["query"].celery_task_id
                 state == TaskStatus(handle)
                 answer == local'["query"].status
             IN  /\ answer \in ExternalStatuses
                 /\ handle # "None" =>
                       /\ state \in {"PENDING", "STARTED", "RETRY"}
                             => answer = "processing"
                       /\ state = "SUCCESS" => answer = "completed"
                       /\ state = "FAILURE" => answer = "failed" ]_vars

\* the query has answered for a record whose task was revoked and discarded
C25_Witness ==
    /\ wpc["query"] = "done"
    /\ local["query"].celery_task_id = "t1"
    /\ wpc["worker"] = "revoked"
    /\ local["query"].status \in ExternalStatuses

\* the stages whose body returned successfully in the current run
Succeeded ==
    {run_invoked[j].stage : j \in {k \in 1..Len(run_invoked) :
                                      run_invoked[k].outcome = "success"}}

\* C27: a finished run is successful exactly when every stage of the list
\* returned successfully in it; the completed stages are always a prefix of
\* the stage list, and the whole list exactly when the finished run is
\* successful.
C27_CompletedIffAllStages ==
    /\ Len(pipeline_results.stages_completed) <= NStages
    /\ \A k \in 1..Len(pipeline_results.stages_completed) :
          pipeline_results.stages_completed[k] = Stages[k]
    /\ ~RunEnded => ~pipeline_results.overall_success
    /\ RunEnded =>
          /\ pipeline_results.overall_success <=> Succeeded = 1..NStages
          /\ pipeline_results.overall_success
                <=> Len(pipeline_results.stages_completed) = NStages

\* a finished run that stopped at the third stage, and so is not successful
C27_Witness ==
    /\ RunEnded
    /\ Len(pipeline_results.stages_completed) = 2
    /\ Len(run_invoked) = 3
    /\ ~pipeline_results.overall_success

\* the keys of the dictionary (for validation: the fields of the
\* ValidationOutput) that the body of each stage returns on success
OutputKeys(stage) ==
    CASE stage = "validation" ->
           {"is_valid", "validation_score", "total_checks", "passed_checks",
            "failed_checks", "results", "errors", "warnings", "suggestions"}
      [] stage = "classification" ->
           {"success", "document_id", "classification",
            "complexity_assessment", "processing_recommendations",
            "metadata_analysis", "content_analysis", "processing_time",
            "agent", "timestamp"}
      [] stage = "ocr_processing" ->
           {"success", "document_id", "ocr_result", "processing_time",
            "cost_estimate", "agent", "model", "timestamp"}
      [] stage = "content_analysis" ->
           {"success", "document_id", "content_analysis", "processing_time",
            "agent", "timestamp"}
      [] stage = "schema_generation" ->
           {"success", "document_id", "generated_schema", "processing_time",
            "agent", "timestamp"}

\* agent_orchestrator.py lines 79, 112: current_data after the results of
\* stages 1..n were merged into it by dict.update, as the stage that the
\* value of each key comes from (0: no stage has produced the key)
RECURSIVE CurrentData(_)
CurrentData(n) ==
    IF n = 0
      THEN [key \in UNION {OutputKeys(Stages[i]) : i \in 1..NStages} |-> 0]
      ELSE [key \in UNION {OutputKeys(Stages[i]) : i \in 1..NStages} |->
              IF key \in OutputKeys(Stages[n]) THEN n
              ELSE CurrentData(n - 1)[key]]

\* C28: in a run the stage bodies are invoked one after the other in the
\* order of the list, each only after the one before returned successfully,
\* and the input of a stage holds every output of every earlier stage.
C28_SequentialWithAllOutputs ==
    /\ \A j \in 1..Len(run_invoked) :
          /\ run_invoked[j].stage = j
          /\ j < Len(run_invoked) => run_invoked[j].outcome = "success"
    /\ (tpc = "stages" /\ stage_idx <= NStages) =>
          /\ stage_idx = Len(run_invoked) + 1
          /\ \A j \in 1..(stage_idx - 1) :
                \A key \in OutputKeys(Stages[j]) :
                   CurrentData(stage_idx - 1)[key] = j

-----------------------------------------------------------------------------
\* The webhook registry of RedisStateManager (state_manager.py): the keys
\* webhook:{id} and the set webhooks:index, under register_webhook,
\* update_webhook and delete_webhook. Each operation issues its Redis
\* commands one by one; `fault` names the command at which Redis raises.

Put(f, k, v) == [x \in DOMAIN f \cup {k} |-> IF x = k THEN v ELSE f[x]]
Remove(f, k) == [x \in DOMAIN f \ {k} |-> f[x]]

\* state_manager.py lines 129-133: the registrations list_webhooks goes
\* through, the members of the index whose key has a value
Indexed(keys, index) ==
    [id \in index \cap DOMAIN keys |-> keys[id].data]

\* the bodies accepted by PUT /webhooks/{id}: a new active flag, a new list
\* of events, or events set to null
WebhookUpdates ==
    [field : {"active"}, value : BOOLEAN]
      \cup [field : {"events"},
            value : {{ProcessedEvent}, {"document.failed"}}]
      \cup [field : {"events_null"}, value : {TRUE}]

\* state_manager.py line 144: webhook.update(updates)
ApplyUpdate(data, upd) ==
    CASE upd.field = "active" -> [data EXCEPT !.active = upd.value]
      [] upd.field = "events" ->
            [data EXCEPT !.events = upd.value, !.events_null = FALSE]
      [] upd.field = "events_null" ->
            [data EXCEPT !.events = {}, !.events_null = TRUE]

\* state_manager.py lines 105-110: set of the key without expiry, then sadd
\* to the index; True only when both commands answered
StoreRegistration(id, data, fault) ==
    /\ wh_keys' = IF fault = "set" THEN wh_keys
                  ELSE Put(wh_keys, id, [data |-> data, ttl |-> NoExpiry])
    /\ wh_index' = IF fault = "none" THEN wh_index \cup {id} ELSE wh_index
    /\ wh_expected' = IF fault = "none" THEN Put(wh_expected, id, data)
                      ELSE wh_expected
    /\ wh_faulty' = IF fault = "sadd" THEN wh_faulty \cup {id} ELSE wh_faulty

InitRegistry ==
    /\ IdleExecute
    /\ IdlePipeline
    /\ IdleWebhooks
    /\ IdleDoc
    /\ IdleRecovery
    /\ IdleBatch
    /\ IdlePath
    /\ IdleRace
    /\ wh_keys = <<>>
    /\ wh_index = {}
    /\ wh_expected = <<>>
    /\ wh_faulty = {}
    /\ wh_next = 1

\* main.py lines 504-516 and state_manager.py lines 103-114: a registration
\* under a fresh id, active, with the events of the body
RegisterWebhook ==
    /\ wh_next <= MaxWebhooks
    /\ \E evs \in {{ProcessedEvent}, {"document.failed"}},
          fault \in {"none", "set", "sadd"} :
          StoreRegistration(wh_next,
                            [active |-> TRUE, events_null |-> FALSE,
                             events |-> evs],
                            fault)
    /\ wh_next' = wh_next + 1
    /\ UNCHANGED nonRegVars

\* state_manager.py lines 141-148: get, update of the dictionary, register
UpdateWebhook ==
    /\ \E id \in 1..MaxWebhooks, upd \in WebhookUpdates,
          fault \in {"none", "get", "set", "sadd"} :
          IF fault # "get" /\ id \in DOMAIN wh_keys
            THEN StoreRegistration(id, ApplyUpdate(wh_keys[id].data, upd),
                                   fault)
            ELSE UNCHANGED <<wh_keys, wh_index, wh_expected, wh_faulty>>
    /\ UNCHANGED wh_next
    /\ UNCHANGED nonRegVars

\* variant: the id stays in the index
DeleteWebhook_KeepsIndex ==
    /\ \E id \in 1..MaxWebhooks :
          /\ wh_keys' = Remove(wh_keys, id)
          /\ wh_expected' = Remove(wh_expected, id)
    /\ UNCHANGED <<wh_index, wh_faulty, wh_next>>
    /\ UNCHANGED nonRegVars

\* state_manager.py lines 150-159: delete of the key, then srem from the
\* index; True only when both commands answered
DeleteWebhook ==
    /\ \E id \in 1..MaxWebhooks, fault \in {"none", "delete", "srem"} :
          /\ wh_keys' = IF fault = "delete" THEN wh_keys
                        ELSE Remove(wh_keys, id)
          /\ wh_index' = IF fault = "none" THEN wh_index \ {id}
                         ELSE wh_index
          /\ wh_expected' = IF fault = "none" THEN Remove(wh_expected, id)
                            ELSE wh_expected
          /\ wh_faulty' = IF fault = "srem" THEN wh_faulty \cup {id}
                          ELSE wh_faulty
    /\ UNCHANGED wh_next
    /\ UNCHANGED nonRegVars

NextRegistry ==
    \/ RegisterWebhook
    \/ UpdateWebhook
    \/ DeleteWebhook

SpecRegistry == InitRegistry /\ [][NextRegistry]_vars

\* C29: after any sequence of operations, for every id at which no
\* operation failed half-way: list_webhooks returns it exactly when it was
\* registered and not deleted since, with its latest data, and the index
\* holds it exactly then; and no webhook key has an expiry.
C29_RegistryPermanentAndEnumerable ==
    /\ \A id \in (1..MaxWebhooks) \ wh_faulty :
          /\ id \in list_webhooks(Indexed(wh_keys, wh_index), "ok", FALSE)
                <=> id \in DOMAIN wh_expected
          /\ id \in wh_index <=> id \in DOMAIN wh_expected
          /\ id \in DOMAIN wh_expected =>
                Indexed(wh_keys, wh_index)[id] = wh_expected[id]
    /\ \A id \in DOMAIN wh_keys : wh_keys[id].ttl = NoExpiry

\* two registrations; the first was deleted, the second deactivated
C29_Witness ==
    /\ wh_next = 3
    /\ wh_faulty = {}
    /\ wh_index = {2}
    /\ DOMAIN wh_keys = {2}
    /\ ~wh_keys[2].data.active

-----------------------------------------------------------------------------
\* The message of trigger_webhooks_task.

\* tasks.py lines 132-138: the dictionary handed to trigger_webhooks_task,
\* which POSTs it as it received it (json=payload, line 210)
webhook_payload(results, t) ==
    [event |-> ProcessedEvent,
     timestamp |-> t,
     document_id |-> "d1",
     job_id |-> "j1",
     schema |-> IF HasSchema(results.agent_results) THEN "data" ELSE "empty"]

\* the fields of the delivery payload as documented
WirePayloadFields ==
    {"event", "timestamp", "document_id", "job_id", "result", "error"}

\* C31: every payload that the pipeline task hands to the dispatcher has
\* exactly the fields event, timestamp, document_id, job_id, result, error.
C31_PayloadHasFixedShape ==
    [][ webhooks' = webhooks + 1
          => DOMAIN webhook_payload(pipeline_results, now)
                = WirePayloadFields ]_vars

-----------------------------------------------------------------------------
\* AgentOrchestrator.process_batch: one process_single coroutine per
\* document, all handed to asyncio.gather, each taking the semaphore around
\* its process_document call.

MaxBatch == 3
MaxConcurrent == 2

\* what one process_document call gives: a result with overall_success
\* true or false, or an exception
BatchOutcomes == {"success", "failure", "raise"}

\* agent_orchestrator.py lines 300-308: the entry of document i
BatchEntry(i, out) ==
    CASE out = "raise" ->
            [document_id |-> i, overall_success |-> FALSE,
             error_details |-> "Batch processing exception"]
      [] out = "failure" ->
            [document_id |-> i, overall_success |-> FALSE,
             error_details |-> "stage failed"]
      [] out = "success" ->
            [document_id |-> i, overall_success |-> TRUE,
             error_details |-> "None"]

Running == {i \in 1..b_docs : b_state[i] = "running"}

InitBatch ==
    /\ IdleExecute
    /\ IdlePipeline
    /\ IdleWebhooks
    /\ IdleDoc
    /\ IdleRecovery
    /\ IdleRegistry
    /\ IdlePath
    /\ IdleRace
    /\ b_docs \in 0..MaxBatch
    /\ b_max \in 1..MaxConcurrent
    /\ b_sem = b_max
    /\ b_state = [i \in 1..b_docs |-> "created"]
    /\ b_out = [i \in 1..b_docs |-> "None"]
    /\ b_runs = [i \in 1..b_docs |-> 0]
    /\ b_peak = 0
    /\ bpc = "gather"
    /\ b_results = <<>>

\* variant: process_document is called without taking the semaphore
BatchEnter_NoSemaphore ==
    /\ bpc = "gather"
    /\ \E i \in 1..b_docs :
          /\ b_state[i] = "created"
          /\ b_state' = [b_state EXCEPT ![i] = "running"]
          /\ b_runs' = [b_runs EXCEPT ![i] = @ + 1]
          /\ b_peak' = IF Cardinality(Running) + 1 > b_peak
                         THEN Cardinality(Running) + 1 ELSE b_peak
    /\ UNCHANGED <<b_docs, b_max, b_sem, b_out, bpc, b_results>>
    /\ UNCHANGED nonBatchVars

\* agent_orchestrator.py lines 290-292: "async with semaphore" lets the
\* coroutine in when the value is positive, and process_document starts
BatchEnter ==
    /\ bpc = "gather"
    /\ b_sem > 0
    /\ \E i \in 1..b_docs :
          /\ b_state[i] = "created"
          /\ b_state' = [b_state EXCEPT ![i] = "running"]
          /\ b_runs' = [b_runs EXCEPT ![i] = @ + 1]
          /\ b_peak' = IF Cardinality(Running) + 1 > b_peak
                         THEN Cardinality(Running) + 1 ELSE b_peak
    /\ b_sem' = b_sem - 1
    /\ UNCHANGED <<b_docs, b_max, b_out, bpc, b_results>>
    /\ UNCHANGED nonBatchVars

\* agent_orchestrator.py lines 291-292: process_document returns or raises,
\* and leaving the "async with" block releases the semaphore either way
BatchLeave ==
    /\ bpc = "gather"
    /\ \E i \in 1..b_docs, out \in BatchOutcomes :
          /\ b_state[i] = "running"
          /\ b_state' = [b_state EXCEPT ![i] = "done"]
          /\ b_out' = [b_out EXCEPT ![i] = out]
    /\ b_sem' = b_sem + 1
    /\ UNCHANGED <<b_docs, b_max, b_runs, b_peak, bpc, b_results>>
    /\ UNCHANGED nonBatchVars

\* agent_orchestrator.py lines 296-311: gather(return_exceptions=True)
\* gives the outcomes in the order of the documents once all are done
BatchCollect ==
    /\ bpc = "gather"
    /\ \A i \in 1..b_docs : b_state[i] = "done"
    /\ b_results' = [i \in 1..b_docs |-> BatchEntry(i, b_out[i])]
    /\ bpc' = "returned"
    /\ UNCHANGED <<b_docs, b_max, b_sem, b_state, b_out, b_runs, b_peak>>
    /\ UNCHANGED nonBatchVars

NextBatch ==
    \/ BatchEnter
    \/ BatchLeave
    \/ BatchCollect

SpecBatch == InitBatch /\ [][NextBatch]_vars

\* C32: at no time are more than max_concurrent process_document runs in
\* progress; no document is processed twice, and when process_batch has
\* returned every document was processed once; the returned list has one
\* entry per document, in input order, and an exception of one document is
\* that document's failure entry while the others keep their own results.
C32_BatchBoundsConcurrency ==
    /\ Cardinality(Running) <= b_max
    /\ b_peak <= b_max
    /\ \A i \in 1..b_docs : b_runs[i] <= 1
    /\ bpc = "returned" =>
          /\ Len(b_results) = b_docs
          /\ \A i \in 1..b_docs :
                /\ b_runs[i] = 1
                /\ b_results[i].document_id = i
                /\ b_results[i].overall_success = (b_out[i] = "success")
                /\ b_out[i] = "raise" <=>
                     b_results[i].error_details = "Batch processing exception"

\* more documents than the limit: the limit was reached, the second
\* document raised, and the others have their own results
C32_Witness ==
    /\ bpc = "returned"
    /\ b_docs = 3
    /\ b_max = 2
    /\ b_peak = 2
    /\ b_out = <<"success", "raise", "failure">>

-----------------------------------------------------------------------------
\* secure_path_join (utils/security.py). A string is a sequence of
\* characters, a path is a sequence of names below the root.

MaxLen == 2
MaxComponents == 2

\* an ordinary character, the dot, the separator, the tilde, the backslash,
\* the blank, the null byte, and the line feed
Alphabet == {"a", ".", "/", "~", "\\", " ", "NUL", "LF"}

Strings == UNION {[1..n -> Alphabet] : n \in 0..MaxLen}

\* security.py lines 27-34
DANGEROUS_PATTERNS ==
    {<<".", ".">>, <<"~">>, <<"/", "/">>, <<"NUL">>, <<"CR">>, <<"LF">>}

\* security.py lines 37-42
DANGEROUS_COMPONENTS == {<<".", ".">>, <<".">>, <<"~">>, <<>>}

\* security.py line 45
MAX_PATH_LENGTH == 4096

\* security.py line 48
MAX_DIRECTORY_DEPTH == 10

\* Python: pat in s
Contains(s, pat) ==
    \E i \in 1..(Len(s) - Len(pat) + 1) :
       SubSeq(s, i, i + Len(pat) - 1) = pat

\* Python: s.split("/")
RECURSIVE Split(_)
Split(s) ==
    IF \E i \in 1..Len(s) : s[i] = "/"
      THEN LET i == CHOOSE k \in 1..Len(s) :
                       /\ s[k] = "/"
                       /\ \A h \in 1..(k - 1) : s[h] # "/"
           IN  <<SubSeq(s, 1, i - 1)>> \o Split(SubSeq(s, i + 1, Len(s)))
      ELSE <<s>>

Whitespace == {" ", "LF", "CR"}

\* Python: s.strip()
RECURSIVE Strip(_)
Strip(s) ==
    IF s = <<>> THEN s
    ELSE IF s[1] \in Whitespace THEN Strip(Tail(s))
    ELSE IF s[Len(s)] \in Whitespace THEN Strip(SubSeq(s, 1, Len(s) - 1))
    ELSE s

\* security.py lines 164-165: the non-blank parts, stripped, in order
RECURSIVE KeptParts(_)
KeptParts(parts) ==
    IF parts = <<>> THEN <<>>
    ELSE IF Strip(Head(parts)) # <<>>
           THEN <<Strip(Head(parts))>> \o KeptParts(Tail(parts))
           ELSE KeptParts(Tail(parts))

\* security.py lines 137-165: one turn of the loop over path_components
ComponentParts(component) ==
    IF component = <<>>
      THEN [raised |-> FALSE, parts |-> <<>>]
    ELSE IF \/ Len(component) > MAX_PATH_LENGTH
            \/ \E pat \in DANGEROUS_PATTERNS : Contains(component, pat)
            \/ Contains(component, <<"\\">>)
            \/ \E k \in 1..Len(Split(component)) :
                  Split(component)[k] \in DANGEROUS_COMPONENTS
      THEN [raised |-> TRUE, parts |-> <<>>]
    ELSE [raised |-> FALSE, parts |-> KeptParts(Split(component))]

\* the base directory, and a directory that is not below it
BasePath == << <<"b">> >>
OutsidePath == << <<"o">> >>

\* Path.resolve(): "." names drop out, ".." goes to the parent, and the
\* name "a" directly below the base is, when link holds, a symbolic link
\* to the directory outside
RECURSIVE Resolve(_, _, _)
Resolve(at, names, link) ==
    IF names = <<>> THEN at
    ELSE LET name == Head(names)
             to == CASE name = <<".">> -> at
                     [] name = <<".", ".">> ->
                           IF at = <<>> THEN at
                           ELSE SubSeq(at, 1, Len(at) - 1)
                     [] link /\ at = BasePath /\ name = <<"a">> ->
                           OutsidePath
                     [] OTHER -> Append(at, name)
         IN  Resolve(to, Tail(names), link)

\* Path.relative_to(base) does not raise
IsWithin(path, base) ==
    /\ Len(path) >= Len(base)
    /\ SubSeq(path, 1, Len(base)) = base

\* the number of plain components "a" that the loop has already kept
Nestings == {0, MAX_DIRECTORY_DEPTH}

InitPath ==
    /\ IdleExecute
    /\ IdlePipeline
    /\ IdleWebhooks
    /\ IdleDoc
    /\ IdleRecovery
    /\ IdleRegistry
    /\ IdleBatch
    /\ IdleRace
    /\ j_base \in {"ok", "empty", "missing", "upload_missing", "not_dir"}
    /\ jpc = "start"
    /\ j_taken = 0
    /\ sanitized_components \in {[i \in 1..n |-> <<"a">>] : n \in Nestings}
    /\ j_result = <<>>

\* security.py lines 115-132: the base directory must be given, exist (the
\* configured upload directory is created) and be a directory
JoinBase ==
    /\ jpc = "start"
    /\ jpc' = IF j_base \in {"ok", "upload_missing"} THEN "loop" ELSE "raised"
    /\ UNCHANGED <<j_base, j_taken, sanitized_components, j_result>>
    /\ UNCHANGED nonPathVars

\* security.py lines 136-165
JoinComponent ==
    /\ jpc = "loop"
    /\ j_taken < MaxComponents
    /\ \E component \in Strings :
          LET r == ComponentParts(component)
          IN  IF r.raised
                THEN /\ jpc' = "raised"
                     /\ UNCHANGED sanitized_components
                ELSE /\ jpc' = "loop"
                     /\ sanitized_components' = sanitized_components \o r.parts
    /\ j_taken' = j_taken + 1
    /\ UNCHANGED <<j_base, j_result>>
    /\ UNCHANGED nonPathVars

\* variant: the resolved path is returned without the relative_to test
JoinResolve_NoContainmentTest ==
    /\ jpc = "loop"
    /\ \E link \in BOOLEAN :
          /\ jpc' = "returned"
          /\ j_result' = Resolve(BasePath, sanitized_components, link)
    /\ UNCHANGED <<j_base, j_taken, sanitized_components>>
    /\ UNCHANGED nonPathVars

\* security.py lines 168-197: the base itself when nothing was kept, else
\* the resolved path if it is below the base and not too deep
JoinResolve ==
    /\ jpc = "loop"
    /\ \E link \in BOOLEAN, resolve_fails \in BOOLEAN :
          LET resolved_path == Resolve(BasePath, sanitized_components, link)
          IN  IF sanitized_components = <<>>
                THEN /\ jpc' = "returned"
                     /\ j_result' = BasePath
              ELSE IF \/ resolve_fails
                      \/ ~IsWithin(resolved_path, BasePath)
                      \/ Len(resolved_path) - Len(BasePath)
                            > MAX_DIRECTORY_DEPTH
                THEN /\ jpc' = "raised"
                     /\ UNCHANGED j_result
              ELSE /\ jpc' = "returned"
                   /\ j_result' = resolved_path
    /\ UNCHANGED <<j_base, j_taken, sanitized_components>>
    /\ UNCHANGED nonPathVars

NextPath ==
    \/ JoinBase
    \/ JoinComponent
    \/ JoinResolve

SpecPath == InitPath /\ [][NextPath]_vars

\* C33: secure_path_join raises, or returns a path that lies inside the
\* base directory at depth at most 10, whatever the components contain.
C33_PathContainment ==
    jpc = "returned" =>
       /\ IsWithin(j_result, BasePath)
       /\ Len(j_result) - Len(BasePath) <= MAX_DIRECTORY_DEPTH

\* ten plain components and two more that add no name: the path returned
\* is at depth 10
C33_Witness ==
    /\ jpc = "returned"
    /\ j_taken = 2
    /\ Len(j_result) = Len(BasePath) + MAX_DIRECTORY_DEPTH

-----------------------------------------------------------------------------
\* C34: over all executions of process_document_task for one job (retries
\* and redeliveries of its message), trigger_webhooks_task is enqueued at
\* most once.
C34_AtMostOneDispatchPerJob == webhooks <= 1

-----------------------------------------------------------------------------
\* The record of a document whose task has finished, and the tasks waiting
\* for one document

\* the task sent at upload ran to completion or to failure
Finished == wpc["worker"] \in {"done", "failed", "expired"}

\* the recovery scan stores the record with the handle of a new task
ScanResubmits ==
    /\ wpc["recovery"] = "write"
    /\ wpc'["recovery"] = "done"
    /\ doc_rec'.celery_task_id = "t2"

\* C35: the recovery scan never sends a new task for a document whose task
\* ran to completion or failure, also after the result record of that task
\* has expired.
C35_FinishedNeverRequeued ==
    [][ Finished => ~ScanResubmits ]_vars

\* the processing tasks of the document that no worker has started: the
\* task sent at upload while it is queued and not revoked, and the task
\* sent by the scan
WaitingTasks ==
    (IF wpc["worker"] = "queued" /\ "t1" \notin revoked
       THEN {"t1"} ELSE {})
      \cup (IF wpc["recovery"] = "done"
                 /\ local["recovery"].celery_task_id = "t2"
              THEN {"t2"} ELSE {})

\* C36: the tasks sent at upload and by the recovery scan never make two
\* not-yet-started processing tasks for the same document.
C36_OneOutstandingTask == Cardinality(WaitingTasks) <= 1

\* C37: once the status of the record is completed or failed, only the
\* admin retry changes it.
C37_TerminalStatusStable ==
    [][ ( /\ doc_rec.status \in {"completed", "failed"}
          /\ doc_rec'.status # doc_rec.status )
           => (wpc["admin"] = "write" /\ wpc'["admin"] = "done") ]_vars

-----------------------------------------------------------------------------
\* One update_webhook call and one delete_webhook call on the same webhook,
\* made by two request-serving processes: each Redis command is a step.

RaceId == 1

nonRegRaceVars ==
    <<execVars, pipeVars, hookVars, docVars, recVars, batchVars, pathVars>>

\* the webhook is registered
InitRace ==
    /\ IdleExecute
    /\ IdlePipeline
    /\ IdleWebhooks
    /\ IdleDoc
    /\ IdleRecovery
    /\ IdleBatch
    /\ IdlePath
    /\ \E data \in Registrations :
          /\ wh_keys = Put(<<>>, RaceId, [data |-> data, ttl |-> NoExpiry])
          /\ wh_expected = Put(<<>>, RaceId, data)
    /\ wh_index = {RaceId}
    /\ wh_faulty = {}
    /\ wh_next = RaceId + 1
    /\ x_upd = "idle"
    /\ x_webhook = [active |-> FALSE, events_null |-> FALSE, events |-> {}]
    /\ x_del = "idle"
    /\ x_late = FALSE

\* state_manager.py lines 143-146: get_webhook, and the updates applied to
\* the dictionary it returned; False when there is none
RaceUpdateGet ==
    /\ x_upd = "idle"
    /\ IF RaceId \in DOMAIN wh_keys
         THEN /\ \E upd \in WebhookUpdates :
                    x_webhook' = ApplyUpdate(wh_keys[RaceId].data, upd)
              /\ x_upd' = "got"
         ELSE /\ x_upd' = "done"
              /\ UNCHANGED x_webhook
    /\ UNCHANGED <<x_del, x_late>>
    /\ UNCHANGED <<regVars, nonRegRaceVars>>

\* state_manager.py lines 147, 108: register_webhook is called and sets
\* the key
RaceUpdateSet ==
    /\ x_upd = "got"
    /\ wh_keys' = Put(wh_keys, RaceId, [data |-> x_webhook, ttl |-> NoExpiry])
    /\ x_upd' = "set"
    /\ x_late' = (x_del = "done")
    /\ UNCHANGED <<x_webhook, x_del>>
    /\ UNCHANGED <<wh_index, wh_expected, wh_faulty, wh_next>>
    /\ UNCHANGED nonRegRaceVars

\* state_manager.py lines 110-111: sadd to the index
RaceUpdateSadd ==
    /\ x_upd = "set"
    /\ wh_index' = wh_index \cup {RaceId}
    /\ x_upd' = "done"
    /\ UNCHANGED <<x_webhook, x_del, x_late>>
    /\ UNCHANGED <<wh_keys, wh_expected, wh_faulty, wh_next>>
    /\ UNCHANGED nonRegRaceVars

\* state_manager.py line 154: delete of the key
RaceDeleteKey ==
    /\ x_del = "idle"
    /\ wh_keys' = Remove(wh_keys, RaceId)
    /\ x_del' = "deleted"
    /\ UNCHANGED <<x_upd, x_webhook, x_late>>
    /\ UNCHANGED <<wh_index, wh_expected, wh_faulty, wh_next>>
    /\ UNCHANGED nonRegRaceVars

\* state_manager.py lines 155-156: srem from the index
RaceDeleteSrem ==
    /\ x_del = "deleted"
    /\ wh_index' = wh_index \ {RaceId}
    /\ wh_expected' = Remove(wh_expected, RaceId)
    /\ x_del' = "done"
    /\ UNCHANGED <<x_upd, x_webhook, x_late>>
    /\ UNCHANGED <<wh_keys, wh_faulty, wh_next>>
    /\ UNCHANGED nonRegRaceVars

NextRace ==
    \/ RaceUpdateGet
    \/ RaceUpdateSet
    \/ RaceUpdateSadd
    \/ RaceDeleteKey
    \/ RaceDeleteSrem

SpecRace == InitRace /\ [][NextRace]_vars

\* C38: once delete_webhook has returned, and unless register_webhook was
\* called after that, the key of the webhook and its index entry are both
\* absent and the dispatcher's listing does not contain it.
C38_DeletedStaysDeleted ==
    (x_del = "done" /\ ~x_late) =>
       /\ RaceId \notin DOMAIN wh_keys
       /\ RaceId \notin wh_index
       /\ RaceId \notin list_webhooks(Indexed(wh_keys, wh_index), "ok", TRUE)

-----------------------------------------------------------------------------
\* C39: the AgentResult returned by execute has status COMPLETED or FAILED;
\* it is COMPLETED exactly when the body returned a value in some attempt,
\* and then data is that value and error is empty; when it is FAILED, data
\* is empty and error is set.
C39_ResultTerminalAndConsistent ==
    Returned =>
       /\ AgentResult.status \in {COMPLETED, FAILED}
       /\ AgentResult.status = COMPLETED
             <=> \E i \in 1..Len(Calls) : Calls[i].outcome = "ok"
       /\ AgentResult.status = COMPLETED =>
             /\ AgentResult.data = Calls[Len(Calls)].value
             /\ AgentResult.error = None
       /\ AgentResult.status = FAILED =>
             /\ AgentResult.data = None
             /\ AgentResult.error # None

-----------------------------------------------------------------------------
\* C40: the retry counter of the task never exceeds max_retries, so without
\* redelivery the body runs at most max_retries + 1 times; an execution
\* that raises is retried exactly while retries are left; the execution
\* that raises with none left returns the error dictionary, and after that
\* the task is queued again only by a redelivery of its message.
C40_TaskRetryBounded ==
    [][ /\ retries' <= TaskMaxRetries
        /\ retries' # retries =>
              /\ retries < TaskMaxRetries
              /\ retries' = retries + 1
              /\ tpc \in {"queued", "store"}
              /\ tpc' = "queued"
        /\ (tpc \in {"queued", "store"} /\ tpc' = "queued"
              /\ deliveries' = deliveries)
              => retries' = retries + 1
        /\ (tpc # "done" /\ tpc' = "done" /\ task_return' = "error")
              => /\ retries = TaskMaxRetries
                 /\ retries' = retries
        /\ (tpc = "done" /\ tpc' # "done")
              => /\ tpc' = "queued"
                 /\ deliveries' = deliveries + 1
                 /\ retries' = retries ]_vars

\* the task raised four times and has returned the error dictionary
C40_Witness ==
    /\ tpc = "done"
    /\ task_return = "error"
    /\ retries = TaskMaxRetries
    /\ deliveries = 0

=============================================================================
